---- MODULE Spec2Model ----
(***************************************************************************)
(* Verification model of the AI gateway (oguzhankir/ai-gateway, backend).  *)
(*                                                                         *)
(* The module holds one state machine per subsystem, each with its own     *)
(* specification over the shared variables:                                *)
(*   SpecMask     - PIIMasker.mask / PIIMasker.unmask (app/pii/masker.py)  *)
(*   SpecRate     - RateLimiter.check_rate_limit (app/core/rate_limiter.py)*)
(*   SpecBudget   - BudgetService.check_budget / track_spend               *)
(*   SpecFallback - FallbackManager.execute_with_fallback                  *)
(*   SpecPipe     - GatewayService.process_request behind the              *)
(*                  chat_completions endpoint, composed of the above       *)
(*   SpecGuard    - GuardrailEngine.check (app/guardrails/engine.py)       *)
(*   SpecWebhook  - WebhookService.trigger_event / _deliver_webhook        *)
(*   SpecStream   - StreamingService.stream_completion                     *)
(*   SpecCache    - SemanticCache.get / set (app/cache/semantic_cache.py)  *)
(*   SpecTckn     - validate_tckn, find_pattern_matches (pii/patterns.py)  *)
(*   SpecRace     - concurrent RateLimiter.check_rate_limit calls          *)
(*   SpecSpend    - concurrent BudgetService.track_spend calls             *)
(*   SpecAttr     - guardrail-log rows of concurrent process_request calls *)
(*   SpecOpenAI   - OpenAIProvider.complete (providers/openai_provider.py) *)
(*   SpecLock     - concurrent mask / unmask calls around PIIMasker._lock  *)
(*   SpecDetail   - PIIDetector.detect (app/pii/detector.py)               *)
(*   SpecRoute    - ABRouter.route_request (app/providers/router.py)       *)
(***************************************************************************)
EXTENDS Integers, Sequences, FiniteSets, TLC

(***************************************************************************)
(* Bounds of the model.                                                    *)
(***************************************************************************)
MaxTextLen == 3          \* longest input text, in symbols
MaxEntities == 2         \* longest entity list handed to mask

(***************************************************************************)
(* Text.  A text is a sequence of symbols.  Plain symbols stand for user   *)
(* characters; a sentinel is the symbol sequence  < KIND : sid : KIND _ n >*)
(* so that offsets cut through sentinels exactly as string offsets do.     *)
(***************************************************************************)
PlainChars == {"a", "b"}
PIIKinds == {"PHONE", "TCKN"}          \* PIIType values used by the model
DigitChars == {"0", "1", "2", "3"}
Digit == <<"0", "1", "2", "3">>        \* str(idx) for idx = 0..3
UpperClass == PIIKinds \cup {"_"}      \* the regex class [A-Z_]
SessionIds == <<"s1", "s2", "s3", "s4">>
NoSid == ""                            \* the empty session id

Min(a, b) == IF a < b THEN a ELSE b

\* Python slice s[i:j] on a 0-based string, indices clipped to the length.
PySlice(s, i, j) == SubSeq(s, Min(i, Len(s)) + 1, Min(j, Len(s)))

\* whether sub occurs in s as a contiguous substring
Contains(s, sub) ==
    \E i \in 1..(Len(s) - Len(sub) + 1) : SubSeq(s, i, i + Len(sub) - 1) = sub

(***************************************************************************)
(* PIIMasker.mask: sorted(entities, key=start, reverse=True) is a stable   *)
(* sort, so entities with equal start keep their order.                    *)
(***************************************************************************)
RECURSIVE InsertByStartDesc(_, _)
InsertByStartDesc(e, s) ==
    IF s = <<>> THEN <<e>>
    ELSE IF Head(s).start >= e.start
         THEN <<Head(s)>> \o InsertByStartDesc(e, Tail(s))
         ELSE <<e>> \o s

RECURSIVE SortByStartDesc(_, _)
SortByStartDesc(todo, acc) ==
    IF todo = <<>> THEN acc
    ELSE SortByStartDesc(Tail(todo), InsertByStartDesc(Head(todo), acc))

SortedEntities(entities) == SortByStartDesc(entities, <<>>)

EntityId(kind, idx) == <<kind, "_", Digit[idx + 1]>>

Sentinel(kind, sid, idx) == <<"<", kind, ":", sid, ":">> \o EntityId(kind, idx) \o <<">">>

\* the replacement performed for one entity of the loop
ReplaceBySentinel(masked, e, mask) ==
    PySlice(masked, 0, e.start) \o mask \o PySlice(masked, e.end, Len(masked))

RECURSIVE MaskLoop(_, _, _, _, _)
MaskLoop(masked, mapping, ents, idx, sid) ==
    IF ents = <<>> THEN [masked |-> masked, mapping |-> mapping]
    ELSE LET e == Head(ents)
             mask == Sentinel(e.type, sid, idx)
         IN MaskLoop(ReplaceBySentinel(masked, e, mask),
                     (EntityId(e.type, idx) :> e.text) @@ mapping,
                     Tail(ents), idx + 1, sid)

EmptyMapping == [k \in {} |-> <<>>]

\* mask(text, entities) for a freshly generated session id
MaskText(text, entities, sid) ==
    MaskLoop(text, EmptyMapping, SortedEntities(entities), 0, sid)

(***************************************************************************)
(* PIIMasker.unmask: pattern.sub over                                      *)
(*   <([A-Z_]+):<sid>:([A-Z_]+_\d+)>                                       *)
(* The character classes of the pattern are pairwise disjoint from the     *)
(* literals that follow them, so a match is determined by maximal runs.    *)
(***************************************************************************)
RECURSIVE RunEnd(_, _, _)
\* index of the last symbol of the maximal run of class symbols starting at i
\* (i - 1 when text[i] is not in the class)
RunEnd(text, i, class) ==
    IF i <= Len(text) /\ text[i] \in class THEN RunEnd(text, i + 1, class)
    ELSE i - 1

SymAt(text, i) == IF i >= 1 /\ i <= Len(text) THEN text[i] ELSE "$"

\* the match of the pattern starting at position i, if any
MatchAt(text, i, sid) ==
    LET g1End == RunEnd(text, i + 1, UpperClass)
        g2Start == g1End + 4
        uEnd == RunEnd(text, g2Start, UpperClass)
        dEnd == RunEnd(text, uEnd + 1, DigitChars)
        ok == /\ SymAt(text, i) = "<"
              /\ g1End >= i + 1
              /\ SymAt(text, g1End + 1) = ":"
              /\ SymAt(text, g1End + 2) = sid
              /\ SymAt(text, g1End + 3) = ":"
              /\ uEnd >= g2Start + 1
              /\ text[uEnd] = "_"
              /\ dEnd >= uEnd + 1
              /\ SymAt(text, dEnd + 1) = ">"
    IN IF ok THEN [ok |-> TRUE, end |-> dEnd + 1,
                   entity_id |-> SubSeq(text, g2Start, dEnd)]
       ELSE [ok |-> FALSE, end |-> i, entity_id |-> <<>>]

RECURSIVE RegexSub(_, _, _, _)
RegexSub(text, i, sid, mapping) ==
    IF i > Len(text) THEN <<>>
    ELSE LET m == MatchAt(text, i, sid)
         IN IF m.ok
            THEN (IF m.entity_id \in DOMAIN mapping
                  THEN mapping[m.entity_id]
                  ELSE SubSeq(text, i, m.end))
                 \o RegexSub(text, m.end + 1, sid, mapping)
            ELSE <<text[i]>> \o RegexSub(text, i + 1, sid, mapping)

\* the text returned by unmask(text, session_id) against the session store
UnmaskText(text, sid, store) ==
    IF sid = NoSid THEN text
    ELSE IF sid \notin DOMAIN store THEN text
    ELSE RegexSub(text, 1, sid, store[sid])

StoreAfterUnmask_Kept(sid, store) == store

\* the session store after unmask(text, session_id): the mapping is deleted
StoreAfterUnmask(sid, store) ==
    IF sid = NoSid \/ sid \notin DOMAIN store THEN store
    ELSE [s \in (DOMAIN store) \ {sid} |-> store[s]]

EmptyStore == [s \in {} |-> EmptyMapping]

(***************************************************************************)
(* Inputs of the masker: texts and entity lists with                       *)
(* 0 <= start < end <= len(text); an entity's text is the span it covers,  *)
(* as find_pattern_matches builds it from match.group().  Matches of       *)
(* different patterns may overlap (an 11-digit TCKN contains a PHONE       *)
(* match), detect_patterns only drops exact duplicates.                    *)
(***************************************************************************)
Texts == UNION {[1..n -> PlainChars] : n \in 1..MaxTextLen}

EntitiesOf(text) ==
    {[type |-> k, text |-> SubSeq(text, se[1] + 1, se[2]), start |-> se[1], end |-> se[2]] :
        k \in PIIKinds,
        se \in {x \in (0..(Len(text) - 1)) \X (1..Len(text)) : x[1] < x[2]}}

\* detect_patterns keeps one entity per (start, end, type)
EntityLists(text) ==
    {l \in UNION {[1..n -> EntitiesOf(text)] : n \in 0..MaxEntities} :
        \A i, j \in 1..Len(l) : l[i] = l[j] => i = j}

(***************************************************************************)
(* RateLimiter.check_rate_limit (app/core/rate_limiter.py).                *)
(* Time is counted in seconds; the clock of the model advances in steps of *)
(* ClockStep, and every call reads a later time than the call before it.   *)
(***************************************************************************)
MinuteWindow == 60
HourWindow == 3600
ClockStep == 20
MaxTime == 200           \* the clock stops here
MaxPerMinute == 2        \* largest per-minute limit of the tier
SmallPerHour == 3        \* an hourly limit the model can reach
DefaultPerHour == 1000

\* redis ZCOUNT key lo hi (both ends inclusive)
ZCount(set, lo, hi) == Cardinality({x \in set : lo <= x /\ x <= hi})

\* redis ZREMRANGEBYSCORE key lo hi (both ends inclusive)
ZRemRangeByScore(set, lo, hi) == {x \in set : ~(lo <= x /\ x <= hi)}

ZAdd_Nothing(set, now) == set

\* redis ZADD key {str(now): now}
ZAdd(set, now) == set \cup {now}

\* the members of a key at time now: a key whose EXPIRE ran out is gone
LiveKey(set, exp, now) == IF now > exp THEN {} ELSE set

LimitReached_Off(count, limit) == count > limit

\* minute_count >= per_minute, hour_count >= per_hour
LimitReached(count, limit) == count >= limit

\* int(window - (now % window)) + 1
RetryAfter(now, window) == (window - (now % window)) + 1

(***************************************************************************)
(* BudgetService / BudgetRepository (app/services/budget_service.py,       *)
(* app/db/repositories/budget_repo.py).                                    *)
(* reset_at is always a midnight, so the clock of the budget is the day:   *)
(* day 0 is Monday, 1 January of a 365-day year; now >= reset_at holds     *)
(* exactly when today >= the day of reset_at.  Money is counted in whole   *)
(* units.                                                                  *)
(***************************************************************************)
MaxDays == 12            \* days the clock runs on from a start day
MaxCost == 2             \* largest cost of one request
MaxSpend == 4            \* tracked spend stops growing here
StartDays == {25, 355}      \* 26 January and 22 December
Periods == {"daily", "weekly", "monthly"}
Limits == {2, 3}         \* budget.default_limit values of the model

YearDays == 365
\* days of the year before the first of month m (m = 13: the whole year)
CumDays == <<0, 31, 59, 90, 120, 151, 181, 212, 243, 273, 304, 334, 365>>

YearOf(d) == d \div YearDays
MonthOf(d) == CHOOSE m \in 1..12 : CumDays[m] <= d % YearDays /\ d % YearDays < CumDays[m + 1]
Weekday(d) == d % 7      \* datetime.weekday(): Monday is 0

\* the reset_at computed by get_or_create_budget and reset_budget
NextResetAt(period, today) ==
    IF period = "daily" THEN today + 1
    ELSE IF period = "weekly" THEN today + ((7 - Weekday(today)) % 7)
    ELSE IF MonthOf(today) = 12 THEN (YearOf(today) + 1) * YearDays
    ELSE YearOf(today) * YearDays + CumDays[MonthOf(today) + 1]

NoBudget == [exists |-> FALSE, limit |-> 0, period |-> "monthly",
             current_spend |-> 0, reset_at |-> 0]

\* BudgetRepository.get_or_create_budget
GetOrCreateBudget(budget, limit, period, today) ==
    IF budget.exists THEN budget
    ELSE [exists |-> TRUE, limit |-> limit, period |-> period,
          current_spend |-> 0, reset_at |-> NextResetAt(period, today)]

\* BudgetRepository.reset_budget
ResetBudget(budget, today) ==
    [budget EXCEPT !.reset_at = NextResetAt(budget.period, today),
                   !.current_spend = 0]

\* the budget check_budget evaluates: created if missing, rolled over if due
RolledOver(budget, today) ==
    IF today >= budget.reset_at THEN ResetBudget(budget, today) ELSE budget

BudgetAfterLoad(budget, limit, period, today) ==
    RolledOver(GetOrCreateBudget(budget, limit, period, today), today)

Exceeds_Strict(budget, cost) == budget.current_spend + cost >= budget.limit

\* budget.current_spend + cost > budget.limit
Exceeds(budget, cost) == budget.current_spend + cost > budget.limit

\* BudgetRepository.update_spend
UpdateSpend(budget, amount) ==
    [budget EXCEPT !.current_spend = budget.current_spend + amount]

(***************************************************************************)
(* FallbackManager.execute_with_fallback (app/providers/fallback.py) and   *)
(* ProviderFactory.get_provider (app/providers/factory.py).                *)
(***************************************************************************)
MaxOrderLen == 3         \* longest fallback.order list
MaxWait == 40            \* longest time a provider call is observed waiting

\* config_manager.get("timeout.default", 30)
TimeoutDefault == 30

Providers == {"openai", "gemini", "other"}
KnownProviders == {"openai", "gemini"}     \* the names the factory builds
NoProvider == ""                           \* provider = None
NoModel == ""                              \* model = None
CallerModels == {"gpt-4", "gemini-pro", "my-model"}

\* providers.<p>.models
ModelsOf(p) ==
    IF p = "openai" THEN {"gpt-3.5-turbo", "gpt-4"}
    ELSE IF p = "gemini" THEN {"gemini-pro"}
    ELSE {}

\* config_manager.get("providers.<p>.default_model", "gpt-3.5-turbo")
DefaultModelOf(p) == IF p = "gemini" THEN "gemini-pro" ELSE "gpt-3.5-turbo"

\* fallback.order: the lists of distinct provider names
Orders ==
    {o \in UNION {[1..n -> Providers] : n \in 0..MaxOrderLen} :
        \A i, j \in 1..Len(o) : o[i] = o[j] => i = j}

RECURSIVE Without(_, _)
\* [p for p in order if p != provider]
Without(order, provider) ==
    IF order = <<>> THEN <<>>
    ELSE IF Head(order) # provider
         THEN <<Head(order)>> \o Without(Tail(order), provider)
         ELSE Without(Tail(order), provider)

ProvidersToTry_OrderOnly(provider, order) == order

\* providers_to_try = [provider] + [p for p in self._order if p != provider]
ProvidersToTry(provider, order) == <<provider>> \o Without(order, provider)

ProviderModel_Callers(provider_name, provider, model) ==
    IF model # NoModel THEN model ELSE DefaultModelOf(provider_name)

\* the model handed to a candidate of the chain
ProviderModel(provider_name, provider, model) ==
    IF provider_name = provider
    THEN (IF model # NoModel THEN model ELSE DefaultModelOf(provider_name))
    ELSE IF model # NoModel /\ model \in ModelsOf(provider_name)
    THEN model
    ELSE DefaultModelOf(provider_name)

NoFbResult == [status |-> "none", provider |-> "", model |-> "", exc |-> ""]

(***************************************************************************)
(* Pattern detection as the pipeline sees it (app/pii/patterns.py,         *)
(* app/pii/detector.py): a pipeline text is a sequence of words; the word  *)
(* "P" stands for a string the PHONE pattern matches, "T" for a            *)
(* checksum-valid TCKN, "x" for a word a content rule filters, " " for the *)
(* separator of the join.                                                  *)
(***************************************************************************)
PiiWordKind(w) == IF w = "T" THEN "TCKN" ELSE IF w = "P" THEN "PHONE" ELSE "NONE"

RECURSIVE FindPatternMatches(_, _, _)
\* find_pattern_matches: the matches of one kind, left to right (from index i)
FindPatternMatches(text, kind, i) ==
    IF i > Len(text) THEN <<>>
    ELSE (IF PiiWordKind(text[i]) = kind
          THEN <<[type |-> kind, text |-> <<text[i]>>, start |-> i - 1, end |-> i]>>
          ELSE <<>>)
         \o FindPatternMatches(text, kind, i + 1)

\* detect_patterns: TCKN matches first, then PHONE matches
DetectPatterns(text) ==
    FindPatternMatches(text, "TCKN", 1) \o FindPatternMatches(text, "PHONE", 1)

(***************************************************************************)
(* GuardrailEngine (app/guardrails/engine.py, app/guardrails/rules.py).    *)
(***************************************************************************)
NoTokens == -1           \* tokens = None

\* guardrails.rules of the configuration
RulesConfig ==
    << [name |-> "no_tckn", type |-> "pii", enabled |-> TRUE, severity |-> "error",
        entity_types |-> {"TCKN"}, patterns |-> {}, threshold |-> 0],
       [name |-> "bad_words", type |-> "content", enabled |-> TRUE, severity |-> "warning",
        entity_types |-> {}, patterns |-> {"x"}, threshold |-> 0],
       [name |-> "max_tokens", type |-> "threshold", enabled |-> TRUE, severity |-> "error",
        entity_types |-> {}, patterns |-> {}, threshold |-> 1],
       [name |-> "no_phone", type |-> "pii", enabled |-> FALSE, severity |-> "error",
        entity_types |-> {"PHONE"}, patterns |-> {}, threshold |-> 0] >>

\* GuardrailEngine._load_rules appends the configured rules to self._rules
LoadRules(rules, config) == rules \o config

\* the rule list of the running service: _load_rules runs in __init__ and
\* again in the lifespan startup of main.py
StartupRules == LoadRules(LoadRules(<<>>, RulesConfig), RulesConfig)

\* BaseRule.check of the three built-in kinds: TRUE when the rule is violated
RuleViolated(rule, text, entities, tokens) ==
    IF ~rule.enabled THEN FALSE
    ELSE IF rule.type = "threshold" THEN tokens # NoTokens /\ tokens > rule.threshold
    ELSE IF rule.type = "pii"
         THEN \E i \in 1..Len(entities) :
                 rule.entity_types = {} \/ entities[i].type \in rule.entity_types
    ELSE IF rule.type = "content"
         THEN text # <<>> /\ \E i \in 1..Len(text) : text[i] \in rule.patterns
    ELSE FALSE

RECURSIVE CheckRules(_, _, _, _)
\* the loop of GuardrailEngine.check: the violations, in rule order
CheckRules(rules, text, entities, tokens) ==
    IF rules = <<>> THEN <<>>
    ELSE (IF Head(rules).enabled /\ RuleViolated(Head(rules), text, entities, tokens)
          THEN <<[rule_name |-> Head(rules).name, severity |-> Head(rules).severity]>>
          ELSE <<>>)
         \o CheckRules(Tail(rules), text, entities, tokens)

ShouldBlock_Never(violations, block_on_violation) == FALSE

\* should_block: some violation has severity error and block_on_violation is set
ShouldBlock(violations, block_on_violation) ==
    block_on_violation /\ \E i \in 1..Len(violations) : violations[i].severity = "error"

EngineCheck_FirstOnly(enabled, block_on_violation, rules, text, entities, tokens) ==
    IF ~enabled THEN [passed |-> TRUE, violations |-> <<>>, should_block |-> FALSE]
    ELSE LET all == CheckRules(rules, text, entities, tokens)
             violations == SubSeq(all, 1, IF all = <<>> THEN 0 ELSE 1)
         IN [passed |-> violations = <<>>,
             violations |-> violations,
             should_block |-> ShouldBlock(violations, block_on_violation)]

\* GuardrailEngine.check(text, pii_entities, tokens)
EngineCheck(enabled, block_on_violation, rules, text, entities, tokens) ==
    IF ~enabled THEN [passed |-> TRUE, violations |-> <<>>, should_block |-> FALSE]
    ELSE LET violations == CheckRules(rules, text, entities, tokens)
         IN [passed |-> violations = <<>>,
             violations |-> violations,
             should_block |-> ShouldBlock(violations, block_on_violation)]


\* no GuardrailResult yet
NoGuardResult == [passed |-> FALSE, violations |-> <<>>, should_block |-> FALSE]

RECURSIVE EvaluatedRules(_)
\* the rules of the loop that get past `if not rule.enabled: continue`
EvaluatedRules(rules) ==
    IF rules = <<>> THEN <<>>
    ELSE (IF Head(rules).enabled THEN <<Head(rules).name>> ELSE <<>>)
         \o EvaluatedRules(Tail(rules))

(***************************************************************************)
(* Inputs of GuardrailEngine.check called on its own: rule lists over the  *)
(* configured rules, texts of a few words, the entity list of the text or  *)
(* none, and a token count or none.                                        *)
(***************************************************************************)
MaxRules == 3            \* longest rule list
MaxGuardWords == 2       \* longest text handed to the engine
MaxTokens == 2           \* largest token count handed to the engine

RulePool == {RulesConfig[i] : i \in 1..Len(RulesConfig)}
RuleLists == UNION {[1..n -> RulePool] : n \in 0..MaxRules}
GuardTexts == UNION {[1..n -> {"P", "T", "x"}] : n \in 0..MaxGuardWords}
(***************************************************************************)
(* GatewayService.process_request (app/services/gateway_service.py), the   *)
(* chat_completions endpoint (app/api/v1/endpoints/gateway.py) and the     *)
(* exception handlers of app/main.py.                                      *)
(* A message is modelled by its content, a text of one word; costs are     *)
(* counted in units of the cost estimate of one word.                      *)
(***************************************************************************)
MaxMessages == 2         \* longest message list of a request
MaxRequests == 2         \* requests served in one behaviour

Words == {"P", "T", "x"}

\* the message lists of a request
MessageLists == UNION {[1..n -> {<<w>> : w \in Words}] : n \in 1..MaxMessages}

RECURSIVE JoinContents(_)
\* " ".join([msg.get("content", "") for msg in messages])
JoinContents(messages) ==
    IF messages = <<>> THEN <<>>
    ELSE IF Len(messages) = 1 THEN Head(messages)
    ELSE Head(messages) \o <<" ">> \o JoinContents(Tail(messages))

RECURSIVE WordCount(_)
\* len(text_content.split())
WordCount(text) ==
    IF text = <<>> THEN 0
    ELSE (IF Head(text) = " " THEN 0 ELSE 1) + WordCount(Tail(text))

\* estimated_cost of the budget pre-check
EstimatedCost(text) == WordCount(text)

\* the message list after masking: the last message carries masked_text,
\* the others keep their content
RewriteMessages(messages, masked_text) ==
    [i \in 1..Len(messages) |->
        IF i = Len(messages) THEN masked_text ELSE messages[i]]

\* ab_router.route_request() with A/B testing off: the default provider
\* and its default model
RouteRequest == <<"openai", DefaultModelOf("openai")>>

\* cost_usd a provider reports for a completion
ProviderCost(p) == IF p = "openai" THEN 2 ELSE 1

\* the completions an upstream may answer to the messages it was sent
Completions(sent) == {<<"P">>, <<"T">>, sent[Len(sent)]}

NoCache == [t \in {} |-> <<>>]

NoResponse == [completion |-> <<>>, cost_usd |-> -1, model |-> "", provider |-> ""]

\* cache_data stored by step 9
CacheData(r) ==
    [completion |-> r.completion, cost_usd |-> r.cost_usd,
     model |-> r.model, provider |-> r.provider]

\* the ProviderResponse synthesised on a cache hit
EnvelopeOnHit(cached) ==
    [completion |-> cached.completion, cost_usd |-> 0,
     model |-> cached.model, provider |-> cached.provider]

BudgetCheckNeeded_Always(cache_hit) == TRUE

MaskNeeded_Enabled(pii_detected, enabled) == enabled

\* step 5: "if pii_detected and config_manager.get('pii.masking.enabled')"
MaskNeeded(pii_detected, enabled) == pii_detected /\ enabled

\* step 7: "if not cache_hit" guards the budget pre-check
BudgetCheckNeeded(cache_hit) == ~cache_hit

\* step 13: "if not cache_hit" guards track_spend
TrackNeeded(cache_hit) == ~cache_hit

ErrorStatus_Failed(type) == "failed"

\* error_status of the except branch
ErrorStatus(type) ==
    IF type = "GuardrailViolationException" THEN "blocked"
    ELSE IF type = "BudgetExceededException" THEN "budget_exceeded"
    ELSE "failed"

TrackSpendRaises_Propagates(write_failed) == write_failed

\* track_spend catches every exception of the spend write
TrackSpendRaises(write_failed) == FALSE

\* the positions at which process_request is suspended in an await (or has
\* finished), so that the event loop may run another task
AwaitPoint(pc) ==
    pc \in {"idle", "rate", "mask", "cache_get", "budget_check", "provider",
            "cache_set", "unmask", "track", "returned", "done"}

NoPExc == [type |-> "", origin |-> "", retry_after |-> 0, violations |-> <<>>]

\* an exception raised by a gate of the pipeline
Raise(type, origin) ==
    [type |-> type, origin |-> origin, retry_after |-> 0, violations |-> <<>>]

\* the request targets of the model: no provider and no model, or both named
RequestTargets == {<<NoProvider, NoModel>>, <<"gemini", "gpt-4">>}

\* seconds between two requests of the principal
ArrivalGaps == {1, MinuteWindow + 1}

\* the strongest severity among violations (for the gate history)
Severity(violations) ==
    IF \E i \in 1..Len(violations) : violations[i].severity = "error" THEN "error"
    ELSE IF violations # <<>> THEN "warning"
    ELSE "clean"

Task(kind, arg, n) == [kind |-> kind, arg |-> arg, n |-> n]

AuditTasks_Skipped(status) ==
    IF status = "completed" THEN <<Task("audit", status, 0)>> ELSE <<>>

\* asyncio.create_task(log_and_get_id()) at step 14,
\* asyncio.create_task(log_error_and_update()) in the except branch
AuditTasks(status) == <<Task("audit", status, 0)>>


\* chat_completions: except Exception as e: raise HTTPException(500, str(e))
EndpointException(e) == [type |-> "HTTPException", status_code |-> 500, retry_after |-> 0]

\* the response FastAPI builds for an exception leaving the endpoint: the
\* handlers registered in main.py, and the default handler of HTTPException
HandlerResponse(e) ==
    IF e.type = "RateLimitException"
    THEN [status |-> 429, retry_after_header |-> e.retry_after]
    ELSE IF e.type = "TimeoutException" THEN [status |-> 504, retry_after_header |-> 0]
    ELSE IF e.type = "ProviderException" THEN [status |-> 502, retry_after_header |-> 0]
    ELSE IF e.type = "GuardrailViolationException"
    THEN [status |-> 400, retry_after_header |-> 0]
    ELSE IF e.type = "BudgetExceededException"
    THEN [status |-> 402, retry_after_header |-> 0]
    ELSE IF e.type = "HTTPException" THEN [status |-> e.status_code, retry_after_header |-> 0]
    ELSE [status |-> 500, retry_after_header |-> 0]

NoHttp == [status |-> 0, retry_after_header |-> 0]

\* no earlier call returned a response for the prompt of this call
NoPrevious == "-"

NoResult == [completion |-> <<>>, cost |-> -1, cache_hit |-> FALSE,
             pii_detected |-> FALSE, model |-> "", provider |-> "", request_id |-> ""]


(***************************************************************************)
(* WebhookService (app/services/webhook_service.py) and                    *)
(* WebhookRepository.get_active_webhooks (app/db/repositories/             *)
(* webhook_repo.py).  A POST either reaches the receiver and is answered   *)
(* with a success status, reaches it and is answered with an error status  *)
(* or too late for webhooks.timeout, or does not reach it at all.          *)
(***************************************************************************)
MaxWebhooks == 2         \* rows of the webhooks table
MaxWebhookRetries == 3   \* largest webhooks.max_retries
RetryDelay == 1          \* webhooks.retry_delay, in seconds

EventTypes == {"request.completed", "request.failed"}
WebhookRows == [is_active : BOOLEAN,
                events : {{"request.completed"}, {"request.failed"}, EventTypes}]
WebhookTables == UNION {[1..n -> WebhookRows] : n \in 0..MaxWebhooks}

\* the rows get_active_webhooks(event_type) returns
GetActiveWebhooks(subs, event_type) ==
    {i \in 1..Len(subs) : subs[i].is_active /\ event_type \in subs[i].events}

NoTask == [pc |-> "none", attempt |-> 0]
NoDeliveries == <<>>
PostOutcomes == {"success", "error_status", "unreachable"}

\* whether the POST got to the receiver
Reached(outcome) == outcome # "unreachable"

\* the except branch of the retry loop: sleep before the next attempt, or
\* leave the loop after the last one
AfterFailure(task, max_retries) ==
    IF task.attempt < max_retries - 1
    THEN [task EXCEPT !.pc = "sleep"]
    ELSE [task EXCEPT !.pc = "gave_up"]

\* "for attempt in range(self._max_retries)": the loop body runs at all
LoopEntry(max_retries) ==
    IF max_retries > 0 THEN [pc |-> "post", attempt |-> 0]
    ELSE [pc |-> "gave_up", attempt |-> 0]

Backoff_Fixed(retry_delay, attempt) == retry_delay

\* self._retry_delay * (2 ** attempt)
Backoff(retry_delay, attempt) == retry_delay * 2 ^ attempt

MayPost_InTurn(tasks, i) ==
    /\ tasks[i].pc = "post"
    /\ \A k \in 1..(i - 1) : tasks[k].pc \notin {"post", "sleep"}

\* the delivery task of row i is at client.post: asyncio.create_task gave
\* every row a task of its own, which waits for no other
MayPost(tasks, i) == tasks[i].pc = "post"

(***************************************************************************)
(* StreamingService.stream_completion (app/services/streaming_service.py)  *)
(* behind the stream_completions endpoint.  The upstream stream is a       *)
(* completion cut into non-empty chunks; a frame is what the generator     *)
(* yields.                                                                 *)
(***************************************************************************)
MaxStreamMessages == 1   \* longest message list of a streaming request
MaxChunks == 2           \* most chunks of one upstream stream

StreamMessageLists == UNION {[1..n -> {<<w>> : w \in Words}] : n \in 1..MaxStreamMessages}

\* the completions an upstream may stream for the messages it was sent
StreamCompletions(sent) ==
    {<<>>, <<"a">>, sent[Len(sent)], <<"a">> \o sent[Len(sent)]}

RECURSIVE Chunkings(_, _)
\* the ways a provider's stream may cut a completion into at most n chunks;
\* BaseProvider.stream yields non-empty content only
Chunkings(completion, n) ==
    IF completion = <<>> THEN {<<>>}
    ELSE IF n <= 1 THEN {<<completion>>}
    ELSE {<<completion>>} \cup
         UNION {{<<SubSeq(completion, 1, k)>> \o rest :
                    rest \in Chunkings(SubSeq(completion, k + 1, Len(completion)), n - 1)} :
                k \in 1..(Len(completion) - 1)}

\* SSE frames: data: <chunk>, data: [DONE], data: [ERROR] <msg>
DataFrame(chunk) == [kind |-> "data", chunk |-> chunk]
DoneFrame == [kind |-> "done", chunk |-> <<>>]
ErrorFrame == [kind |-> "error", chunk |-> <<>>]

NoStreamExc == ""

Caught_ProviderOnly(exc) == exc = "ProviderException"

\* `except Exception` of stream_completion: ValueError and the gateway's
\* exceptions all derive from Exception
Caught(exc) == exc \in {"ValueError", "ProviderException"}

(***************************************************************************)
(* SemanticCache (app/cache/semantic_cache.py) and cosine_similarity       *)
(* (app/cache/similarity.py).  An embedding is a vector of two integers.   *)
(* A similarity s = dot / (norm1 * norm2) is kept as the exact fraction    *)
(* n / d = s * |s| (d > 0), which orders similarities as s does; a         *)
(* threshold is given in percent.                                          *)
(***************************************************************************)
MaxCacheEntries == 2     \* most cache:* keys alive at a time

CacheTexts == {"a", "b", "c", "z"}
CacheResponses == {"r1", "r2"}
Thresholds == {50, 95}   \* cache.similarity_threshold, in percent

\* the embedding provider: text -> vector ("a" and "b" are paraphrases)
Embed(text) ==
    IF text = "a" THEN <<1, 0>>
    ELSE IF text = "b" THEN <<4, 1>>
    ELSE IF text = "c" THEN <<1, 1>>
    ELSE <<0, 0>>

Dot(v, w) == v[1] * w[1] + v[2] * w[2]

\* cosine_similarity(vec1, vec2); 0.0 when a norm is 0
CosineSimilarity(v, w) ==
    LET dot == Dot(v, w)
    IN IF Dot(v, v) = 0 \/ Dot(w, w) = 0 THEN [n |-> 0, d |-> 1]
       ELSE [n |-> dot * (IF dot < 0 THEN -dot ELSE dot), d |-> Dot(v, v) * Dot(w, w)]

\* similarity > best_similarity
SimGreater(s, t) == s.n * t.d > t.n * s.d

\* best_similarity >= self._similarity_threshold
MeetsThreshold(s, percent) == s.n * 10000 >= percent * percent * s.d

CacheMiss == "miss"      \* get returns None
NoBest == [match |-> CacheMiss, similarity |-> [n |-> 0, d |-> 1]]
EmptyCache == [k \in {} |-> [vector |-> <<0, 0>>, response |-> "", ttl |-> FALSE]]

\* md5(query_text): one key per text
CacheKey(text) == text

RECURSIVE ScanLoop(_, _, _, _, _)
\* the scan of get over the keys in the order SCAN returns them; skipped:
\* the keys whose HGETALL raised or came back empty
ScanLoop(order, store, query_vector, skipped, best) ==
    IF order = <<>> THEN best
    ELSE LET key == Head(order)
             similarity == CosineSimilarity(query_vector, store[key].vector)
             next == IF key \notin skipped /\ SimGreater(similarity, best.similarity)
                     THEN [match |-> store[key].response, similarity |-> similarity]
                     ELSE best
         IN ScanLoop(Tail(order), store, query_vector, skipped, next)

BestMatch_First(order, store, query_vector, skipped) ==
    ScanLoop(SubSeq(order, 1, IF order = <<>> THEN 0 ELSE 1), store, query_vector,
             skipped, NoBest)

\* best_match and best_similarity once the scan is complete
BestMatch(order, store, query_vector, skipped) ==
    ScanLoop(order, store, query_vector, skipped, NoBest)

\* what get returns after the scan
GetResult(best, percent) ==
    IF best.match # CacheMiss /\ MeetsThreshold(best.similarity, percent)
    THEN best.match
    ELSE CacheMiss

\* the orders in which SCAN may return the keys
ScanOrders(keys) ==
    {o \in [1..Cardinality(keys) -> keys] : \A i, j \in DOMAIN o : o[i] = o[j] => i = j}

GetFaults == {"none", "embed", "scan", "hgetall"}
SetFaults == {"none", "embed", "hset", "expire"}

\* the except clauses of get and set catch Exception: embedding errors and
\* Redis errors alike
CacheCaught(fault) == fault \in {"embed", "scan", "hgetall", "hset", "expire"}

(***************************************************************************)
(* validate_tckn and the TCKN pattern (app/pii/patterns.py), character by  *)
(* character.  A text is a sequence of characters: the ASCII digits, "a"   *)
(* for a letter, " " for a separator and "sup2" for a character such as    *)
(* U+00B2 that str.isdigit accepts while \d and int() do not.  The word    *)
(* "T" of the pipeline model stands for a match that passes this check.    *)
(***************************************************************************)
TcknLength == 11

AsciiDigits == <<"0", "1", "2", "3", "4", "5", "6", "7", "8", "9">>

AsciiDigitSet == {AsciiDigits[i] : i \in 1..10}

\* int(d) for an ASCII digit
DigitValue(c) == (CHOOSE i \in 1..10 : AsciiDigits[i] = c) - 1

\* str.isdigit on one character
IsDigitChar(c) == c \in AsciiDigitSet \cup {"sup2"}

\* the regex class \d on one character
IsDecimalChar(c) == c \in AsciiDigitSet

\* the regex class \w on one character
IsWordChar(c) == c \in AsciiDigitSet \cup {"a", "sup2"}

RECURSIVE SumDigits(_, _, _, _)
\* sum(digits[first:stop:step]) with 0-based first and stop
SumDigits(tckn, first, stop, step) ==
    IF first >= stop THEN 0
    ELSE DigitValue(tckn[first + 1]) + SumDigits(tckn, first + step, stop, step)

ValidateTckn_Unweighted(tckn) ==
    IF Len(tckn) # TcknLength \/ \E i \in 1..Len(tckn) : ~IsDigitChar(tckn[i])
    THEN "False"
    ELSE IF \E i \in 1..Len(tckn) : ~IsDecimalChar(tckn[i])
    THEN "ValueError"
    ELSE IF SumDigits(tckn, 0, 10, 1) % 10 # DigitValue(tckn[11])
    THEN "False"
    ELSE IF (SumDigits(tckn, 0, 9, 2) - SumDigits(tckn, 1, 9, 2)) % 10
            = DigitValue(tckn[10])
    THEN "True"
    ELSE "False"

\* validate_tckn: "True", "False", or "ValueError" when int(d) raises
ValidateTckn(tckn) ==
    IF Len(tckn) # TcknLength \/ \E i \in 1..Len(tckn) : ~IsDigitChar(tckn[i])
    THEN "False"
    ELSE IF \E i \in 1..Len(tckn) : ~IsDecimalChar(tckn[i])
    THEN "ValueError"
    ELSE IF SumDigits(tckn, 0, 10, 1) % 10 # DigitValue(tckn[11])
    THEN "False"
    ELSE IF (SumDigits(tckn, 0, 9, 2) * 7 - SumDigits(tckn, 1, 9, 2)) % 10
            = DigitValue(tckn[10])
    THEN "True"
    ELSE "False"

\* TCKN_PATTERN \b\d{11}\b matches at the 1-based position i of text
TcknPatternAt(text, i) ==
    /\ i + TcknLength - 1 <= Len(text)
    /\ \A k \in i..(i + TcknLength - 1) : IsDecimalChar(text[k])
    /\ i = 1 \/ ~IsWordChar(text[i - 1])
    /\ i + TcknLength > Len(text) \/ ~IsWordChar(text[i + TcknLength])

RECURSIVE FindTcknMatches(_, _)
\* find_pattern_matches(text, TCKN_PATTERN, PIIType.TCKN), scanning from i
FindTcknMatches(text, i) ==
    IF i > Len(text) THEN <<>>
    ELSE IF TcknPatternAt(text, i)
    THEN LET entity_text == SubSeq(text, i, i + TcknLength - 1)
         IN (IF ValidateTckn(entity_text) = "True"
             THEN <<[type |-> "TCKN", text |-> entity_text,
                     start |-> i - 1, end |-> i + TcknLength - 1]>>
             ELSE <<>>)
            \o FindTcknMatches(text, i + TcknLength)
    ELSE FindTcknMatches(text, i + 1)

\* the digits d3..d9 of the strings tried
TcknTails == { <<"3", "4", "5", "6", "7", "8", "9">>,
               <<"0", "0", "0", "0", "0", "0", "0">>,
               <<"9", "0", "9", "8", "1", "7", "6">>,
               <<"1", "9", "2", "9", "3", "9", "4">> }

\* 11-digit strings: every d1, d10 and d11, three values of d2
TcknDigitStrings ==
    { <<d1, d2>> \o tail \o <<d10, d11>> :
        d1 \in AsciiDigitSet, d2 \in {"0", "2", "7"}, tail \in TcknTails,
        d10 \in AsciiDigitSet, d11 \in AsciiDigitSet }

\* strings that are too short, too long, or hold a character that is no digit
TcknMalformed ==
    LET base == { s \in TcknDigitStrings : s[1] = "1" /\ s[2] = "2" }
    IN {<<>>, <<"1", "2", "3", "4", "5">>}
       \cup { SubSeq(s, 1, 10) : s \in base }
       \cup { s \o <<"0">> : s \in base }
       \cup { [s EXCEPT ![1] = c] : s \in base, c \in {"a", "sup2", " "} }

TcknArgs == TcknDigitStrings \cup TcknMalformed

\* what stands left and right of the string in the text searched
TcknContexts == { <<<<>>, <<>>>>, <<<<" ">>, <<" ">>>>, <<<<"a">>, <<>>>>,
                  <<<<>>, <<"a">>>>, <<<<"1">>, <<>>>> }

(***************************************************************************)
(* Concurrent calls of RateLimiter.check_rate_limit for one user           *)
(* (app/core/rate_limiter.py): every await of the call is a step of its    *)
(* own, and the steps of different calls interleave.                       *)
(***************************************************************************)
MaxCalls == 2            \* concurrent check_rate_limit calls
MaxRaceClock == 1        \* the clock values the calls can read: 0..MaxRaceClock

Calls == 1..MaxCalls

\* the call has returned True
Admitted(pc) == {c \in DOMAIN pc : pc[c] = "admitted"}

\* the call is between its first and its last await
InFlight(pc) == {c \in DOMAIN pc : pc[c] \notin {"idle", "admitted", "rejected"}}

(***************************************************************************)
(* Concurrent calls of BudgetService.track_spend for one user              *)
(* (app/services/budget_service.py, app/db/repositories/budget_repo.py).   *)
(* Each call has its own session and transaction at READ COMMITTED; the    *)
(* UPDATE that flush emits sets current_spend to the value computed in     *)
(* Python and holds the row lock until the transaction ends.               *)
(***************************************************************************)
TrackedCosts == {1, 2}

StartSpends == {0, 3}

NoLock == 0

\* budget.current_spend += amount, on the value the session has read
SpendAfter(read, amount) == read + amount

RECURSIVE SumCosts(_, _)
\* the costs of the calls in the set cs, added up
SumCosts(cost, cs) ==
    IF cs = {} THEN 0
    ELSE LET c == CHOOSE x \in cs : TRUE
         IN cost[c] + SumCosts(cost, cs \ {c})

(***************************************************************************)
(* The guardrail-log rows of concurrent process_request invocations of one *)
(* user (app/services/gateway_service.py): the tasks that persist the      *)
(* rows, the audit task and its back-fill, interleaved.  All of it happens *)
(* within the 60 seconds the back-fill looks back.                         *)
(***************************************************************************)
NullId == 0

\* where the guardrails found the violation, and whether they blocked:
\* guardrail_violations is assigned for a violation of the input only,
\* a blocked request creates a second persist task in the except branch
ViolationCases == {"input", "input_blocked", "output", "output_blocked"}

\* the _log_guardrail_violations tasks the invocation creates
PersistTasks(case) == IF case \in {"input_blocked", "output_blocked"} THEN 2 ELSE 1

BackfillNeeded_Always(case) == TRUE

\* "if request_log and guardrail_violations"
BackfillNeeded(case) == case \in {"input", "input_blocked"}

\* _update_guardrail_logs_request_id: every row of the user without a
\* request_id gets this one
Backfill(rows, request_id) ==
    { IF row.request_id = NullId THEN [row EXCEPT !.request_id = request_id] ELSE row :
        row \in rows }

(***************************************************************************)
(* OpenAIProvider.complete (app/providers/openai_provider.py).  An         *)
(* upstream call answers, raises openai.APIError, or raises something else.*)
(***************************************************************************)
MaxProviderRetries == 3  \* largest providers.openai.max_retries

MaxRetryDelay == 2       \* largest providers.openai.retry_delay

\* openai.APIError with status 429, 400 or 500, or without a status
\* (APIConnectionError)
APIErrors == {"rate_limit_error", "bad_request_error", "internal_server_error",
              "connection_error"}

UpstreamOutcomes == {"ok", "other_error"} \cup APIErrors

\* "for attempt in range(self.max_retries)": the first pass, or the end of
\* the function body, which returns None
CompleteEntry(max_retries) == IF max_retries > 0 THEN "attempt" ELSE "returned_none"

\* where complete is after an upstream call with this outcome
AfterUpstream(outcome, attempt, max_retries) ==
    IF outcome = "ok" THEN "returned"
    ELSE IF outcome \in APIErrors
    THEN (IF attempt = max_retries - 1 THEN "raised" ELSE "sleep")
    ELSE "raised"

(***************************************************************************)
(* PIIMasker._lock (app/pii/masker.py): the asyncio.Lock that mask and     *)
(* unmask hold around their Redis calls.  Coroutines of concurrent         *)
(* requests call mask or unmask on the singleton pii_masker.               *)
(***************************************************************************)
MaxCoros == 3       \* concurrent coroutines
MaxLockCalls == 2   \* calls of mask or unmask per coroutine

Coros == 1..MaxCoros

NoCoro == 0

MaskerOps == {"mask", "unmask"}

\* "async with self._lock" without waiting: the lock is free and nobody is
\* queued for it
LockFree_Unlocked(locked, waiters) == TRUE
LockFree(locked, waiters) == ~locked /\ waiters = <<>>

\* the first await inside the lock
FirstAwait(op) == IF op = "mask" THEN "setex" ELSE "get"

\* the positions between session-id generation and the end of setex (mask),
\* and between redis.get and the end of redis.delete (unmask)
InLock == {"setex", "get", "delete"}

\* the outcomes of a Redis call
RedisResults == {"ok", "missing", "error"}

\* where a coroutine is after its Redis call: the next await, or out of the
\* "async with" block ("idle")
AfterRedis(pc, result) ==
    IF pc = "get" /\ result = "ok" THEN "delete" ELSE "idle"

\* release(): the first waiter's future is resolved
WakeUpFirst(waiters) == IF waiters = <<>> THEN NoCoro ELSE Head(waiters)

(***************************************************************************)
(* PIIDetector._detect_detailed (app/pii/detector.py).  The input is what  *)
(* detect_patterns found and what the spaCy pipeline tagged (doc.ents, in  *)
(* text order and disjoint); confidences are in hundredths.                *)
(***************************************************************************)
MaxOffset == 5           \* length of the text
MaxPatternHits == 2      \* entities found by detect_patterns
MaxEnts == 2             \* entities of doc.ents

PatternConfidence == 100 \* confidence=1.0 of every pattern entity

Spans == {sp \in (0..MaxOffset) \X (0..MaxOffset) : sp[1] < sp[2]}

PatternEntities ==
    {[type |-> k, start |-> sp[1], end |-> sp[2], confidence |-> PatternConfidence] :
        k \in {"TCKN", "PHONE"}, sp \in Spans}

NerLabels == {"PERSON", "DATE", "CARDINAL"}

NerEnts == {[label_ |-> l, start_char |-> sp[1], end_char |-> sp[2]] :
               l \in NerLabels, sp \in Spans}

\* entity_type_map.get(ent.label_)
EntityTypeOf(label) ==
    IF label = "PERSON" THEN "PERSON" ELSE IF label = "DATE" THEN "DATE" ELSE "NONE"

\* 0.8 if ent.label_ in ["PERSON", "ORG"] else 0.9
NerConfidence(label) == IF label \in {"PERSON", "ORG"} THEN 80 ELSE 90

\* the overlap test of an NER candidate against an existing entity
OverlapsExisting(existing, ent) ==
    \/ existing.start <= ent.start_char /\ ent.start_char < existing.end
    \/ existing.start < ent.end_char /\ ent.end_char <= existing.end

RECURSIVE AddNerEntities(_, _)
\* the loop over doc.ents: a mapped candidate that overlaps no entity found
\* so far is appended
AddNerEntities(entities, ents) ==
    IF ents = <<>> THEN entities
    ELSE LET ent == Head(ents)
             pii_type == EntityTypeOf(ent.label_)
             overlaps == \E i \in 1..Len(entities) : OverlapsExisting(entities[i], ent)
         IN AddNerEntities(
                IF pii_type # "NONE" /\ ~overlaps
                THEN Append(entities, [type |-> pii_type, start |-> ent.start_char,
                                       end |-> ent.end_char,
                                       confidence |-> NerConfidence(ent.label_)])
                ELSE entities,
                Tail(ents))

RECURSIVE InsertByStart(_, _)
\* e put behind every element that starts no later (list.sort is stable)
InsertByStart(sorted, e) ==
    IF sorted = <<>> THEN <<e>>
    ELSE IF Head(sorted).start <= e.start
    THEN <<Head(sorted)>> \o InsertByStart(Tail(sorted), e)
    ELSE <<e>> \o sorted

RECURSIVE SortByStart(_)
\* entities.sort(key=lambda e: e.start)
SortByStart(entities) ==
    IF entities = <<>> THEN <<>>
    ELSE InsertByStart(SortByStart(SubSeq(entities, 1, Len(entities) - 1)),
                       entities[Len(entities)])

MergeOverlap_Never(entity, last) == FALSE

\* entity.start < last.end
MergeOverlap(entity, last) == entity.start < last.end

RECURSIVE MergeLoop(_, _)
\* the merge pass: on overlap with the last kept entity the more confident
\* of the two stays
MergeLoop(merged, entities) ==
    IF entities = <<>> THEN merged
    ELSE LET entity == Head(entities)
         IN MergeLoop(
                IF merged = <<>> THEN <<entity>>
                ELSE LET last == merged[Len(merged)]
                     IN IF MergeOverlap(entity, last)
                        THEN (IF entity.confidence > last.confidence
                              THEN [merged EXCEPT ![Len(merged)] = entity]
                              ELSE merged)
                        ELSE Append(merged, entity),
                Tail(entities))

\* the candidates of the merge pass
DetailedCandidates(patterns, ents) == AddNerEntities(patterns, ents)

\* _detect_detailed(text)
DetectDetailed(patterns, ents) ==
    MergeLoop(<<>>, SortByStart(DetailedCandidates(patterns, ents)))

(***************************************************************************)
(* ABRouter.route_request (app/providers/router.py).  random.random() *    *)
(* 100 and the percentages are taken in steps of RandStep.                 *)
(***************************************************************************)
MaxVariants == 2         \* entries of ab_testing.variants
RandStep == 25           \* grain of the sample and of the percentages

\* random.random() * 100, in [0, 100)
Rands == {k * RandStep : k \in 0..((100 \div RandStep) - 1)}

Percentages == {0, RandStep, 2 * RandStep, 100}

Variants ==
    [provider : {"openai", "gemini"}, model : {"gpt-4"}, percentage : Percentages]

\* the default of the disabled router: the first enabled provider and its
\* default model
DefaultRoute(openai_enabled) ==
    LET default_provider == IF openai_enabled THEN "openai" ELSE "gemini"
    IN <<default_provider, DefaultModelOf(default_provider)>>

RECURSIVE SelectVariant(_, _, _, _)
\* the loop over the variants from index i on, cumulative being the sum of
\* the percentages before i: the index of the variant returned, 0 if the
\* loop ends without a return
SelectVariant(variants, i, cumulative, rand) ==
    IF i > Len(variants) THEN 0
    ELSE IF rand <= cumulative + variants[i].percentage THEN i
    ELSE SelectVariant(variants, i + 1, cumulative + variants[i].percentage, rand)

\* behind the loop: "Fallback to first variant"
AfterLoop(variants, openai_enabled) == <<variants[1].provider, variants[1].model>>

\* route_request() with the sample rand
RouteRequestAB(enabled, variants, openai_enabled, rand) ==
    IF ~enabled \/ variants = <<>> THEN DefaultRoute(openai_enabled)
    ELSE LET i == SelectVariant(variants, 1, 0, rand)
         IN IF i # 0 THEN <<variants[i].provider, variants[i].model>>
            ELSE AfterLoop(variants, openai_enabled)
VARIABLES
    maskStore,      \* Redis keys mask:<sid> -> mapping entity_id -> original
    sidCounter,     \* number of session ids generated so far
    mText,          \* masker: the input text
    mEntities,      \* masker: the entity list
    mMasked,        \* masker: masked text returned by mask
    mSid,           \* masker: session id returned by mask
    mResult,        \* masker: text returned by unmask
    mPc,            \* masker: "start" | "masked" | "unmasked" | "again"
    mExpired        \* masker: the session's TTL ran out before unmask


maskVars == <<maskStore, sidCounter, mText, mEntities, mMasked, mSid, mResult, mPc, mExpired>>

VARIABLES
    rNow,           \* rate limiter: the clock (time.time()), in seconds
    rEnabled,       \* rate_limiting.enabled
    rPerMinute,     \* tier requests_per_minute
    rPerHour,       \* tier requests_per_hour
    rMinute,        \* sorted set rate_limit:<user>:minute (scores)
    rHour,          \* sorted set rate_limit:<user>:hour (scores)
    rMinuteExp,     \* time up to which the minute key lives (-1: no key)
    rHourExp,       \* time up to which the hour key lives (-1: no key)
    rLastCall,      \* time of the latest check_rate_limit call (-1: none)
    rOutcome,       \* result of the latest call
    rRetryAfter,    \* retry_after of the latest rejection (0: none)
    rAdmitted       \* history: times of all admitted calls


rateVars == <<rNow, rEnabled, rPerMinute, rPerHour, rMinute, rHour, rMinuteExp,
              rHourExp, rLastCall, rOutcome, rRetryAfter, rAdmitted>>

VARIABLES
    bToday,         \* budget: the current day (datetime.utcnow())
    bEnabled,       \* budget.enabled
    bDefaultLimit,  \* budget.default_limit
    bDefaultPeriod, \* budget.default_period
    bBudget,        \* the principal's row of the budgets table
    bOp,            \* the latest step: "none" | "day" | "check" | "track"
    bOutcome,       \* result of the latest check_budget
    bExc,           \* the BudgetExceededException raised, if any
    bPre,           \* history: the row before the latest check_budget
    bCost           \* history: the cost passed to the latest check_budget

budgetVars == <<bToday, bEnabled, bDefaultLimit, bDefaultPeriod, bBudget, bOp,
                bOutcome, bExc, bPre, bCost>>

VARIABLES
    fbEnabled,      \* fallback.enabled
    fbOrder,        \* fallback.order
    fbPrimary,      \* execute_with_fallback: provider argument
    fbModel,        \* execute_with_fallback: model argument
    fbPc,           \* "idle" | "direct" | "loop" | "done"
    fbChain,        \* providers_to_try
    fbIdx,          \* position of the loop in providers_to_try
    fbAttempts,     \* history: the candidates tried, with model and outcome
    fbLastError,    \* last_error (the provider that raised it)
    fbResult,       \* the response returned or the exception raised
    fbWaited        \* seconds the pending provider call has gone unanswered

fallbackVars == <<fbEnabled, fbOrder, fbPrimary, fbModel, fbPc, fbChain, fbIdx,
                  fbAttempts, fbLastError, fbResult, fbWaited>>

VARIABLES
    cfgMasking,     \* pii.masking.enabled
    cfgCache,       \* cache.enabled
    gEnabled,       \* guardrail engine: guardrails.enabled
    gBlockOnViolation, \* guardrail engine: guardrails.block_on_violation
    gRules,         \* guardrail engine: self._rules
    cacheStore,     \* semantic cache: query text -> cached response
    pPc,            \* position of process_request / chat_completions
    pServed,        \* number of requests accepted so far
    pOrigMessages,  \* the messages of the request as received
    pMessages,      \* the local variable messages
    pProvider,      \* the local variable provider
    pModel,         \* the local variable model
    pText,          \* text_content
    pEntities,      \* pii_entities
    pViolations,    \* guardrail_violations (<<>>: None)
    pSid,           \* session_id
    pCacheHit,      \* cache_hit
    pCached,        \* cached_response
    pResp,          \* provider_response
    pCompletion,    \* completion_text
    pExc,           \* the exception that left process_request
    pResult,        \* the GatewayResponse returned by process_request
    pHttp,          \* the HTTP response of the endpoint
    pTasks,         \* tasks created with asyncio.create_task, not yet run
    pTrace,         \* history: the gates executed for the request
    pGuardInText,   \* history: the text handed to the input guardrail
    pSent,          \* history: the messages handed to execute_with_fallback
    pRaised,        \* history: the exception as first raised
    pScheduled,     \* history: every task created for the request
    pLog,           \* history: the tasks that ran, with position and outcome
    pTrackFailed,   \* history: the spend write of track_spend failed
    pPrevId,        \* history: request_id of the response the previous call
                    \*          returned for the same prompt
    gTokens,        \* guardrails called on their own: the tokens argument
    gResult,        \* the GuardrailResult returned by that call
    gEvaluated,     \* history: the rules whose check ran, in order
    wEnabled,       \* webhooks.enabled
    wMaxRetries,    \* webhooks.max_retries
    wSubs,          \* the rows of the webhooks table
    wEvent,         \* the event type handed to trigger_event
    wPc,            \* trigger_event: "idle" | "call" | "returned"
    wTasks,         \* the _deliver_webhook tasks created, by row
    wReceived,      \* history: POSTs that reached each row's receiver
    wPosts,         \* history: the outcome of every POST, by row
    wWaits,         \* history: the asyncio.sleep delays, by row
    sMessages,      \* stream_completion: the messages argument
    sProvider,      \* stream_completion: the provider argument
    sPc,            \* stream_completion: position of the generator
    sSid,           \* session_id
    sSent,          \* the messages handed to provider_instance.stream
    sUpstream,      \* chunks the upstream stream has yet to yield
    sChunks,        \* history: the chunks received from upstream
    sFrames,        \* the frames yielded to the endpoint
    sExc,           \* the exception raised inside the try block
    sTrace,         \* history: the gates executed
    sMapping,       \* history: the mapping stored by mask
    scEnabled,      \* semantic cache: cache.enabled
    scReady,        \* redis and the embedding provider are initialised
    scThreshold,    \* cache.similarity_threshold, in percent
    scStore,        \* the cache:* hashes of Redis
    scOp,           \* the latest call: "none" | "get" | "set" | "expire"
    scQuery,        \* query_text of the latest call
    scFault,        \* the embedding or Redis call that raised in it
    scSkipped,      \* the keys whose HGETALL raised in it
    scResult,       \* what the latest call returned, if it was a get
    scEscaped,      \* an exception left the latest call
    tArg,           \* validate_tckn: the string argument
    tContext,       \* the characters left and right of it in the text searched
    tPc,            \* "idle" | "input" | "validated" | "detected"
    tValid,         \* what validate_tckn(tArg) did
    tFound,         \* the entities find_pattern_matches returned
    qClock,         \* concurrent check_rate_limit calls: time.time()
    qPerMinute,     \* tier requests_per_minute
    qPerHour,       \* tier requests_per_hour
    qPc,            \* position of each call
    qNow,           \* the local variable now of each call
    qMinute,        \* sorted set rate_limit:<user>:minute (members str(now))
    qHour,          \* sorted set rate_limit:<user>:hour
    kStart,         \* concurrent track_spend calls: current_spend before them
    kSpend,         \* budgets.current_spend as committed
    kLock,          \* the call whose transaction holds the row lock
    kPc,            \* position of each call
    kCost,          \* the cost argument of each call
    kRead,          \* budget.current_spend as the call's session loaded it
    kWritten,       \* the value the call's UPDATE wrote, not yet committed
    aCase,          \* concurrent invocations: the violation each one met
    aPersist,       \* the persist tasks of each invocation still to run
    aAudit,         \* the audit task: "none" | "created" | "logged" | "done"
    aRows,          \* the rows of guardrail_logs, with the invocation they
                    \* were persisted for
    oMaxRetries,    \* OpenAIProvider.max_retries
    oRetryDelay,    \* OpenAIProvider.retry_delay
    oPc,            \* complete: "idle" | "call" | "attempt" | "sleep" |
                    \*           "returned" | "raised" | "returned_none"
    oAttempt,       \* the loop variable attempt
    oCalls,         \* history: the outcome of every upstream call
    oWaits,         \* history: the asyncio.sleep delays
    lPc,            \* per coroutine: "off" | "idle" | "wait_mask" | "wait_unmask" |
                    \*                "setex" | "get" | "delete"
    lCalls,         \* per coroutine: calls of mask or unmask made
    lLocked,        \* asyncio.Lock._locked
    lWaiters,       \* asyncio.Lock._waiters, oldest first
    lWoken,         \* the waiter whose future release() resolved
    dPatterns,      \* what detect_patterns(text) returns
    dEnts,          \* doc.ents of the spaCy pipeline
    dMode,          \* the mode of the latest detect call ("-": none)
    dEntities,      \* the entities of the latest PIIDetectionResult
    vEnabled,       \* ab_testing.enabled
    vVariants,      \* ab_testing.variants
    vOpenai,        \* providers.openai.enabled
    vRand,          \* the sample of the latest route_request (-1: none)
    vRoute          \* what the latest route_request returned

pipeConfigVars == <<cfgMasking, cfgCache, gEnabled, gBlockOnViolation, gRules>>

pipeReqVars == <<pOrigMessages, pMessages, pProvider, pModel, pText, pEntities,
                 pViolations, pSid, pCacheHit, pCached, pResp, pCompletion, pExc,
                 pResult, pHttp, pTrace, pGuardInText, pSent, pRaised, pScheduled,
                 pTrackFailed, pPrevId>>

guardCallVars == <<gTokens, gResult, gEvaluated>>

webhookVars == <<wEnabled, wMaxRetries, wSubs, wEvent, wPc, wTasks, wReceived, wPosts, wWaits>>

streamVars == <<sMessages, sProvider, sPc, sSid, sSent, sUpstream, sChunks, sFrames,
                sExc, sTrace, sMapping>>

semCacheVars == <<scEnabled, scReady, scThreshold, scStore, scOp, scQuery, scFault,
                  scSkipped, scResult, scEscaped>>

tcknVars == <<tArg, tContext, tPc, tValid, tFound>>

raceVars == <<qClock, qPerMinute, qPerHour, qPc, qNow, qMinute, qHour>>

spendVars == <<kStart, kSpend, kLock, kPc, kCost, kRead, kWritten>>

attrVars == <<aCase, aPersist, aAudit, aRows>>

openaiVars == <<oMaxRetries, oRetryDelay, oPc, oAttempt, oCalls, oWaits>>

lockVars == <<lPc, lCalls, lLocked, lWaiters, lWoken>>

detailVars == <<dPatterns, dEnts, dMode, dEntities>>

routeVars == <<vEnabled, vVariants, vOpenai, vRand, vRoute>>

laterVars == <<tcknVars, raceVars, spendVars, attrVars, openaiVars, lockVars, detailVars, routeVars>>

pipeVars == <<pipeConfigVars, cacheStore, pPc, pServed, pipeReqVars, pTasks, pLog,
              guardCallVars, webhookVars, streamVars, semCacheVars, laterVars>>

vars == <<maskVars, rateVars, budgetVars, fallbackVars, pipeVars>>

MaskIdle ==
    /\ maskStore = EmptyStore
    /\ sidCounter = 0
    /\ mText = <<>>
    /\ mEntities = <<>>
    /\ mMasked = <<>>
    /\ mSid = NoSid
    /\ mResult = <<>>
    /\ mPc = "idle"
    /\ mExpired = FALSE

MaskInputs ==
    /\ maskStore = EmptyStore
    /\ sidCounter = 0
    /\ mText \in Texts
    /\ mEntities \in EntityLists(mText)
    /\ mMasked = <<>>
    /\ mSid = NoSid
    /\ mResult = <<>>
    /\ mPc = "start"
    /\ mExpired = FALSE

RateIdle ==
    /\ rNow = 0
    /\ rEnabled = TRUE
    /\ rPerMinute = 1
    /\ rPerHour = DefaultPerHour
    /\ rMinute = {}
    /\ rHour = {}
    /\ rMinuteExp = -1
    /\ rHourExp = -1
    /\ rLastCall = -1
    /\ rOutcome = "none"
    /\ rRetryAfter = 0
    /\ rAdmitted = {}

RateInputs ==
    /\ rNow = 0
    /\ rEnabled \in BOOLEAN
    /\ rPerMinute \in 1..MaxPerMinute
    /\ rPerHour \in {SmallPerHour, DefaultPerHour}
    /\ rMinute = {}
    /\ rHour = {}
    /\ rMinuteExp = -1
    /\ rHourExp = -1
    /\ rLastCall = -1
    /\ rOutcome = "none"
    /\ rRetryAfter = 0
    /\ rAdmitted = {}

NoExc == [current_spend |-> -1, limit |-> -1]

BudgetIdle ==
    /\ bToday = 0
    /\ bEnabled = TRUE
    /\ bDefaultLimit = 3
    /\ bDefaultPeriod = "monthly"
    /\ bBudget = NoBudget
    /\ bOp = "none"
    /\ bOutcome = "none"
    /\ bExc = NoExc
    /\ bPre = NoBudget
    /\ bCost = 0

BudgetInputs ==
    /\ bToday \in StartDays
    /\ bEnabled \in BOOLEAN
    /\ bDefaultLimit \in Limits
    /\ bDefaultPeriod \in Periods
    /\ bBudget = NoBudget
    /\ bOp = "none"
    /\ bOutcome = "none"
    /\ bExc = NoExc
    /\ bPre = NoBudget
    /\ bCost = 0

FallbackCallIdle ==
    /\ fbPrimary = NoProvider
    /\ fbModel = NoModel
    /\ fbPc = "idle"
    /\ fbChain = <<>>
    /\ fbIdx = 1
    /\ fbAttempts = <<>>
    /\ fbLastError = ""
    /\ fbResult = NoFbResult
    /\ fbWaited = 0

FallbackIdle ==
    /\ fbEnabled = TRUE
    /\ fbOrder = <<"openai", "gemini">>
    /\ FallbackCallIdle

FallbackInputs ==
    /\ fbEnabled \in BOOLEAN
    /\ fbOrder \in Orders
    /\ FallbackCallIdle

\* no request in flight
PipeRequestIdle ==
    /\ pOrigMessages = <<>>
    /\ pMessages = <<>>
    /\ pProvider = NoProvider
    /\ pModel = NoModel
    /\ pText = <<>>
    /\ pEntities = <<>>
    /\ pViolations = <<>>
    /\ pSid = NoSid
    /\ pCacheHit = FALSE
    /\ pCached = NoResponse
    /\ pResp = NoResponse
    /\ pCompletion = <<>>
    /\ pExc = NoPExc
    /\ pResult = NoResult
    /\ pHttp = NoHttp
    /\ pTrace = <<>>
    /\ pGuardInText = <<>>
    /\ pSent = <<>>
    /\ pRaised = NoPExc
    /\ pScheduled = <<>>
    /\ pTrackFailed = FALSE
    /\ pPrevId = NoPrevious
    /\ pTasks = <<>>
    /\ pLog = <<>>
    /\ pPc = "idle"
    /\ pServed = 0
    /\ cacheStore = NoCache

\* GuardrailEngine.check not called on its own
GuardCallIdle ==
    /\ gTokens = NoTokens
    /\ gResult = NoGuardResult
    /\ gEvaluated = <<>>

\* no event triggered
WebhookIdle ==
    /\ wEnabled = TRUE
    /\ wMaxRetries = 1
    /\ wSubs = <<>>
    /\ wEvent = ""
    /\ wPc = "idle"
    /\ wTasks = NoDeliveries
    /\ wReceived = NoDeliveries
    /\ wPosts = NoDeliveries
    /\ wWaits = NoDeliveries

\* no streaming request
StreamIdle ==
    /\ sMessages = <<>>
    /\ sProvider = NoProvider
    /\ sPc = "idle"
    /\ sSid = NoSid
    /\ sSent = <<>>
    /\ sUpstream = <<>>
    /\ sChunks = <<>>
    /\ sFrames = <<>>
    /\ sExc = NoStreamExc
    /\ sTrace = <<>>
    /\ sMapping = EmptyMapping

\* the semantic cache called by nobody
SemCacheCallIdle ==
    /\ scStore = EmptyCache
    /\ scOp = "none"
    /\ scQuery = ""
    /\ scFault = "none"
    /\ scSkipped = {}
    /\ scResult = CacheMiss
    /\ scEscaped = FALSE

SemCacheIdle ==
    /\ scEnabled = TRUE
    /\ scReady = TRUE
    /\ scThreshold = 95
    /\ SemCacheCallIdle

\* validate_tckn and the TCKN pattern not exercised on their own
TcknIdle ==
    /\ tArg = <<>>
    /\ tContext = <<<<>>, <<>>>>
    /\ tPc = "idle"
    /\ tValid = "none"
    /\ tFound = <<>>

\* no concurrent check_rate_limit calls
RaceCallsIdle ==
    /\ qClock = 0
    /\ qPc = [c \in Calls |-> "idle"]
    /\ qNow = [c \in Calls |-> 0]
    /\ qMinute = {}
    /\ qHour = {}

RaceIdle ==
    /\ qPerMinute = 1
    /\ qPerHour = DefaultPerHour
    /\ RaceCallsIdle

\* no concurrent track_spend calls
SpendCallsIdle ==
    /\ kSpend = kStart
    /\ kLock = NoLock
    /\ kPc = [c \in Calls |-> "idle"]
    /\ kCost = [c \in Calls |-> 0]
    /\ kRead = [c \in Calls |-> 0]
    /\ kWritten = [c \in Calls |-> 0]

SpendIdle ==
    /\ kStart = 0
    /\ SpendCallsIdle

\* no invocation with a guardrail violation
AttrIdle ==
    /\ aCase = [c \in Calls |-> "none"]
    /\ aPersist = [c \in Calls |-> 0]
    /\ aAudit = [c \in Calls |-> "none"]
    /\ aRows = {}

\* OpenAIProvider.complete not called on its own
OpenAIIdle ==
    /\ oMaxRetries = 3
    /\ oRetryDelay = 1
    /\ oPc = "idle"
    /\ oAttempt = 0
    /\ oCalls = <<>>
    /\ oWaits = <<>>

\* no coroutine contends for PIIMasker._lock
LockIdle ==
    /\ lPc = [c \in Coros |-> "off"]
    /\ lCalls = [c \in Coros |-> 0]
    /\ lLocked = FALSE
    /\ lWaiters = <<>>
    /\ lWoken = NoCoro

\* PIIDetector.detect not called on its own
DetailIdle ==
    /\ dPatterns = <<>>
    /\ dEnts = <<>>
    /\ dMode = "-"
    /\ dEntities = <<>>

\* A/B testing switched off, route_request not called on its own
RouteIdle ==
    /\ vEnabled = FALSE
    /\ vVariants = <<>>
    /\ vOpenai = TRUE
    /\ vRand = -1
    /\ vRoute = <<>>

LaterIdle ==
    /\ RouteIdle
    /\ DetailIdle
    /\ LockIdle
    /\ TcknIdle
    /\ RaceIdle
    /\ SpendIdle
    /\ AttrIdle
    /\ OpenAIIdle

PipeIdle ==
    /\ cfgMasking = TRUE
    /\ cfgCache = TRUE
    /\ gEnabled = TRUE
    /\ gBlockOnViolation = TRUE
    /\ gRules = StartupRules
    /\ PipeRequestIdle
    /\ GuardCallIdle
    /\ WebhookIdle
    /\ StreamIdle
    /\ SemCacheIdle
    /\ LaterIdle

\* the configuration and locals of process_request while it is not called
PipeCoreIdle ==
    /\ cfgMasking = TRUE
    /\ cfgCache = TRUE
    /\ gEnabled = TRUE
    /\ gBlockOnViolation = TRUE
    /\ gRules = StartupRules
    /\ PipeRequestIdle

PipeInputs ==
    /\ cfgMasking \in BOOLEAN
    /\ cfgCache = TRUE
    /\ gEnabled = TRUE
    /\ gBlockOnViolation = TRUE
    /\ gRules = StartupRules
    /\ PipeRequestIdle
    /\ GuardCallIdle
    /\ WebhookIdle
    /\ StreamIdle
    /\ SemCacheIdle
    /\ LaterIdle


\* GuardrailEngine.check about to be called on its own
GuardInputs ==
    /\ cfgMasking = TRUE
    /\ cfgCache = TRUE
    /\ gEnabled \in BOOLEAN
    /\ gBlockOnViolation \in BOOLEAN
    /\ gRules \in RuleLists
    /\ pOrigMessages = <<>>
    /\ pMessages = <<>>
    /\ pProvider = NoProvider
    /\ pModel = NoModel
    /\ pText \in GuardTexts
    /\ pEntities \in {<<>>, DetectPatterns(pText)}
    /\ pViolations = <<>>
    /\ pSid = NoSid
    /\ pCacheHit = FALSE
    /\ pCached = NoResponse
    /\ pResp = NoResponse
    /\ pCompletion = <<>>
    /\ pExc = NoPExc
    /\ pResult = NoResult
    /\ pHttp = NoHttp
    /\ pTrace = <<>>
    /\ pGuardInText = <<>>
    /\ pSent = <<>>
    /\ pRaised = NoPExc
    /\ pScheduled = <<>>
    /\ pTrackFailed = FALSE
    /\ pPrevId = NoPrevious
    /\ pTasks = <<>>
    /\ pLog = <<>>
    /\ pPc = "guard_call"
    /\ pServed = 0
    /\ cacheStore = NoCache
    /\ gTokens \in {NoTokens} \cup (1..MaxTokens)
    /\ gResult = NoGuardResult
    /\ gEvaluated = <<>>
    /\ WebhookIdle
    /\ StreamIdle
    /\ SemCacheIdle
    /\ LaterIdle

\* trigger_event about to be called
WebhookInputs ==
    /\ wEnabled \in BOOLEAN
    /\ wMaxRetries \in 0..MaxWebhookRetries
    /\ wSubs \in WebhookTables
    /\ wEvent \in EventTypes
    /\ wPc = "call"
    /\ wTasks = [i \in 1..Len(wSubs) |-> NoTask]
    /\ wReceived = [i \in 1..Len(wSubs) |-> 0]
    /\ wPosts = [i \in 1..Len(wSubs) |-> <<>>]
    /\ wWaits = [i \in 1..Len(wSubs) |-> <<>>]

\* stream_completion about to be called
StreamInputs ==
    /\ sMessages \in StreamMessageLists
    /\ sProvider \in {NoProvider} \cup Providers
    /\ sPc = "detect"
    /\ sSid = NoSid
    /\ sSent = sMessages
    /\ sUpstream = <<>>
    /\ sChunks = <<>>
    /\ sFrames = <<>>
    /\ sExc = NoStreamExc
    /\ sTrace = <<>>
    /\ sMapping = EmptyMapping

\* a semantic cache after construction and initialize
SemCacheInputs ==
    /\ scEnabled \in BOOLEAN
    /\ scReady \in BOOLEAN
    /\ scThreshold \in Thresholds
    /\ SemCacheCallIdle

TcknInputs ==
    /\ tArg \in TcknArgs
    /\ tContext \in TcknContexts
    /\ tPc = "input"
    /\ tValid = "none"
    /\ tFound = <<>>

RaceInputs ==
    /\ qPerMinute \in 1..MaxPerMinute
    /\ qPerHour = DefaultPerHour
    /\ RaceCallsIdle

SpendInputs ==
    /\ kStart \in StartSpends
    /\ SpendCallsIdle

OpenAIInputs ==
    /\ oMaxRetries \in 0..MaxProviderRetries
    /\ oRetryDelay \in 1..MaxRetryDelay
    /\ oPc = "call"
    /\ oAttempt = 0
    /\ oCalls = <<>>
    /\ oWaits = <<>>

LockInputs ==
    /\ lPc = [c \in Coros |-> "idle"]
    /\ lCalls = [c \in Coros |-> 0]
    /\ lLocked = FALSE
    /\ lWaiters = <<>>
    /\ lWoken = NoCoro

\* the pattern entities are distinct; doc.ents is in text order and disjoint
DetailInputs ==
    /\ dPatterns \in {ps \in UNION {[1..n -> PatternEntities] : n \in 0..MaxPatternHits} :
                        \A i, j \in 1..Len(ps) : i # j => ps[i] # ps[j]}
    /\ dEnts \in {es \in UNION {[1..n -> NerEnts] : n \in 0..MaxEnts} :
                     \A i \in 1..(Len(es) - 1) : es[i].end_char <= es[i + 1].start_char}
    /\ dMode = "-"
    /\ dEntities = <<>>

RouteInputs ==
    /\ vEnabled \in BOOLEAN
    /\ vVariants \in UNION {[1..n -> Variants] : n \in 0..MaxVariants}
    /\ vOpenai \in BOOLEAN
    /\ vRand = -1
    /\ vRoute = <<>>
\* the variables an action of one subsystem leaves alone
maskOthers == <<rateVars, budgetVars, fallbackVars, pipeVars>>
rateOthers == <<maskVars, budgetVars, fallbackVars, pipeVars>>
budgetOthers == <<maskVars, rateVars, fallbackVars, pipeVars>>
fallbackOthers == <<maskVars, rateVars, budgetVars, pipeVars>>

\* PIIMasker.mask
Mask ==
    /\ mPc = "start"
    /\ IF mEntities = <<>>
       THEN /\ mMasked' = mText
            /\ mSid' = NoSid
            /\ UNCHANGED <<maskStore, sidCounter>>
       ELSE LET sid == SessionIds[sidCounter + 1]
                r == MaskText(mText, mEntities, sid)
            IN /\ mMasked' = r.masked
               /\ mSid' = sid
               /\ sidCounter' = sidCounter + 1
               /\ maskStore' = (sid :> r.mapping) @@ maskStore
    /\ mPc' = "masked"
    /\ UNCHANGED <<mText, mEntities, mResult, mExpired>>
    /\ UNCHANGED maskOthers

\* Redis drops mask:<sid> when its TTL (pii.masking.session_ttl) runs out
ExpireSession ==
    /\ mPc = "masked"
    /\ mSid \in DOMAIN maskStore
    /\ maskStore' = [s \in (DOMAIN maskStore) \ {mSid} |-> maskStore[s]]
    /\ mExpired' = TRUE
    /\ UNCHANGED <<sidCounter, mText, mEntities, mMasked, mSid, mResult, mPc>>
    /\ UNCHANGED maskOthers

\* PIIMasker.unmask applied to the masked text: the first call after mask,
\* and one later call with the same text and session id
Unmask ==
    /\ mPc \in {"masked", "unmasked"}
    /\ mResult' = UnmaskText(mMasked, mSid, maskStore)
    /\ maskStore' = StoreAfterUnmask(mSid, maskStore)
    /\ mPc' = IF mPc = "masked" THEN "unmasked" ELSE "again"
    /\ UNCHANGED <<sidCounter, mText, mEntities, mMasked, mSid, mExpired>>
    /\ UNCHANGED maskOthers

\* time passes
Tick ==
    /\ rNow + ClockStep <= MaxTime
    /\ rNow' = rNow + ClockStep
    /\ UNCHANGED <<rEnabled, rPerMinute, rPerHour, rMinute, rHour, rMinuteExp,
                   rHourExp, rLastCall, rOutcome, rRetryAfter, rAdmitted>>
    /\ UNCHANGED rateOthers

\* the effect of one whole call of RateLimiter.check_rate_limit at time rNow
DoCheckRateLimit ==
    /\ rLastCall' = rNow
    /\ IF ~rEnabled
       THEN /\ rOutcome' = "admitted"
            /\ rRetryAfter' = 0
            /\ rAdmitted' = rAdmitted \cup {rNow}
            /\ UNCHANGED <<rMinute, rHour, rMinuteExp, rHourExp>>
       ELSE LET minute == LiveKey(rMinute, rMinuteExp, rNow)
                hour == LiveKey(rHour, rHourExp, rNow)
                minute_count == ZCount(minute, rNow - MinuteWindow, rNow)
                hour_count == ZCount(hour, rNow - HourWindow, rNow)
            IN IF LimitReached(minute_count, rPerMinute)
               THEN /\ rOutcome' = "rejected_minute"
                    /\ rRetryAfter' = RetryAfter(rNow, MinuteWindow)
                    /\ UNCHANGED <<rMinute, rHour, rMinuteExp, rHourExp, rAdmitted>>
               ELSE IF LimitReached(hour_count, rPerHour)
               THEN /\ rOutcome' = "rejected_hour"
                    /\ rRetryAfter' = RetryAfter(rNow, HourWindow)
                    /\ UNCHANGED <<rMinute, rHour, rMinuteExp, rHourExp, rAdmitted>>
               ELSE /\ rOutcome' = "admitted"
                    /\ rRetryAfter' = 0
                    /\ rMinute' = ZRemRangeByScore(ZAdd(minute, rNow), 0, rNow - MinuteWindow)
                    /\ rHour' = ZRemRangeByScore(ZAdd(hour, rNow), 0, rNow - HourWindow)
                    /\ rMinuteExp' = rNow + MinuteWindow
                    /\ rHourExp' = rNow + HourWindow
                    /\ rAdmitted' = rAdmitted \cup {rNow}
    /\ UNCHANGED <<rEnabled, rPerMinute, rPerHour>>

\* RateLimiter.check_rate_limit called by a client at time rNow
CheckRateLimit ==
    /\ rNow > rLastCall
    /\ DoCheckRateLimit
    /\ UNCHANGED rNow
    /\ UNCHANGED rateOthers

\* a day passes
NextDay ==
    /\ \E s \in StartDays : s <= bToday /\ bToday < s + MaxDays
    /\ bToday' = bToday + 1
    /\ bOp' = "day"
    /\ UNCHANGED <<bEnabled, bDefaultLimit, bDefaultPeriod, bBudget,
                   bOutcome, bExc, bPre, bCost>>
    /\ UNCHANGED budgetOthers

\* the effect of BudgetService.check_budget(user_id, cost)
DoCheckBudget(cost) ==
      /\ bOp' = "check"
      /\ bPre' = bBudget
      /\ bCost' = cost
      /\ IF ~bEnabled
         THEN /\ bOutcome' = "admitted"
              /\ bExc' = NoExc
              /\ UNCHANGED bBudget
         ELSE LET budget == BudgetAfterLoad(bBudget, bDefaultLimit, bDefaultPeriod, bToday)
              IN /\ bBudget' = budget
                 /\ IF Exceeds(budget, cost)
                    THEN /\ bOutcome' = "exceeded"
                         /\ bExc' = [current_spend |-> budget.current_spend,
                                     limit |-> budget.limit]
                    ELSE /\ bOutcome' = "admitted"
                         /\ bExc' = NoExc
      /\ UNCHANGED <<bToday, bEnabled, bDefaultLimit, bDefaultPeriod>>

\* BudgetService.check_budget(user_id, cost)
CheckBudget ==
    \E cost \in 0..MaxCost :
      /\ DoCheckBudget(cost)
      /\ UNCHANGED budgetOthers

\* the effect of BudgetService.track_spend(user_id, cost); write_failed: the
\* spend write raised (no budget row, or a database error) and was rolled back
DoTrackSpend(cost, write_failed) ==
      /\ bOp' = "track"
      /\ IF bEnabled /\ bBudget.exists /\ ~write_failed
         THEN bBudget' = UpdateSpend(bBudget, cost)
         ELSE UNCHANGED bBudget
      /\ UNCHANGED <<bToday, bEnabled, bDefaultLimit, bDefaultPeriod,
                     bOutcome, bExc, bPre, bCost>>

\* BudgetService.track_spend(user_id, cost)
TrackSpend ==
    \E cost \in 0..MaxCost :
      /\ bBudget.current_spend + cost <= MaxSpend
      /\ DoTrackSpend(cost, FALSE)
      /\ UNCHANGED budgetOthers

\* entry of execute_with_fallback(messages, model, provider, ...)
FbEnter(provider, model) ==
    /\ fbPrimary' = provider
    /\ fbModel' = model
    /\ fbAttempts' = <<>>
    /\ fbLastError' = ""
    /\ fbResult' = NoFbResult
    /\ fbIdx' = 1
    /\ fbWaited' = 0
    /\ IF ~fbEnabled \/ provider = NoProvider
       THEN fbPc' = "direct" /\ fbChain' = <<>>
       ELSE fbPc' = "loop" /\ fbChain' = ProvidersToTry(provider, fbOrder)
    /\ UNCHANGED <<fbEnabled, fbOrder>>

\* a caller invokes execute_with_fallback
FbCall ==
    /\ fbPc \in {"idle", "done"}
    /\ \E provider \in Providers \cup {NoProvider}, model \in CallerModels \cup {NoModel} :
          FbEnter(provider, model)
    /\ UNCHANGED fallbackOthers

\* no fallback: the primary provider is called directly
FbDirect ==
    /\ fbPc = "direct"
    /\ fbPc' = "done"
    /\ fbWaited' = 0
    /\ IF fbPrimary \notin KnownProviders
       THEN /\ fbResult' = [status |-> "error", provider |-> fbPrimary,
                            model |-> "", exc |-> "ValueError"]
            /\ UNCHANGED fbAttempts
       ELSE IF fbModel = NoModel
       THEN \* provider_instance.default_model: the providers have no such attribute
            /\ fbResult' = [status |-> "error", provider |-> fbPrimary,
                            model |-> "", exc |-> "AttributeError"]
            /\ UNCHANGED fbAttempts
       ELSE \E ok \in BOOLEAN :
            /\ fbAttempts' = Append(fbAttempts,
                   [provider |-> fbPrimary, model |-> fbModel, ok |-> ok])
            /\ fbResult' = IF ok
                 THEN [status |-> "ok", provider |-> fbPrimary, model |-> fbModel, exc |-> ""]
                 ELSE [status |-> "error", provider |-> fbPrimary, model |-> fbModel,
                       exc |-> "ProviderException"]
    /\ UNCHANGED <<fbEnabled, fbOrder, fbPrimary, fbModel, fbChain, fbIdx, fbLastError>>
    /\ UNCHANGED fallbackOthers

\* one iteration of the loop over providers_to_try
FbAttempt ==
    /\ fbPc = "loop"
    /\ fbIdx <= Len(fbChain)
    /\ fbWaited' = 0
    /\ LET provider_name == fbChain[fbIdx]
           provider_model == ProviderModel(provider_name, fbPrimary, fbModel)
       IN \E answer \in BOOLEAN :
            LET ok == answer /\ provider_name \in KnownProviders
            IN /\ fbAttempts' = Append(fbAttempts,
                      [provider |-> provider_name, model |-> provider_model, ok |-> ok])
               /\ IF ok
                  THEN /\ fbResult' = [status |-> "ok", provider |-> provider_name,
                                       model |-> provider_model, exc |-> ""]
                       /\ fbPc' = "done"
                       /\ UNCHANGED <<fbIdx, fbLastError>>
                  ELSE /\ fbLastError' = provider_name
                       /\ fbIdx' = fbIdx + 1
                       /\ UNCHANGED <<fbResult, fbPc>>
    /\ UNCHANGED <<fbEnabled, fbOrder, fbPrimary, fbModel, fbChain>>
    /\ UNCHANGED fallbackOthers

\* the loop ran out of candidates: raise ProviderException(provider="fallback")
FbAllFailed ==
    /\ fbPc = "loop"
    /\ fbIdx > Len(fbChain)
    /\ fbResult' = [status |-> "error", provider |-> "fallback", model |-> "",
                    exc |-> "ProviderException"]
    /\ fbPc' = "done"
    /\ UNCHANGED <<fbEnabled, fbOrder, fbPrimary, fbModel, fbChain, fbIdx,
                   fbAttempts, fbLastError, fbWaited>>
    /\ UNCHANGED fallbackOthers

\* the provider called by "await provider_instance.complete(...)" has not
\* answered yet: the call is awaited without a timer, so time just passes
FbWait ==
    /\ \/ fbPc = "direct" /\ fbPrimary \in KnownProviders /\ fbModel # NoModel
       \/ fbPc = "loop" /\ fbIdx <= Len(fbChain) /\ fbChain[fbIdx] \in KnownProviders
    /\ fbWaited + ClockStep <= MaxWait
    /\ fbWaited' = fbWaited + ClockStep
    /\ UNCHANGED <<fbEnabled, fbOrder, fbPrimary, fbModel, fbPc, fbChain, fbIdx,
                   fbAttempts, fbLastError, fbResult>>
    /\ UNCHANGED fallbackOthers

(***************************************************************************)
(* The request pipeline.  Each action runs process_request from one await  *)
(* to the next; one request is in flight at a time.                        *)
(***************************************************************************)
maskerCallVars == <<mText, mEntities, mMasked, mSid, mResult, mPc, mExpired>>

Gate(gate, out) == [gate |-> gate, out |-> out]

\* chat_completions receives a request and calls process_request; what the
\* previous call left in locals and results is gone
PStart ==
    /\ pPc \in {"idle", "done"}
    /\ pTasks = <<>>
    /\ pServed < MaxRequests
    /\ \E messages \in MessageLists, target \in RequestTargets,
          gap \in (IF pServed = 0 THEN {1} ELSE ArrivalGaps) :
         /\ rNow' = rNow + gap
         /\ pOrigMessages' = messages
         /\ pMessages' = messages
         /\ pProvider' = target[1]
         /\ pModel' = target[2]
         /\ pPrevId' = IF pResult # NoResult /\ JoinContents(messages) = pText
                       THEN pResult.request_id
                       ELSE NoPrevious
    /\ pText' = <<>>
    /\ pEntities' = <<>>
    /\ pViolations' = <<>>
    /\ pSid' = NoSid
    /\ pCacheHit' = FALSE
    /\ pCached' = NoResponse
    /\ pResp' = NoResponse
    /\ pCompletion' = <<>>
    /\ pExc' = NoPExc
    /\ pResult' = NoResult
    /\ pHttp' = NoHttp
    /\ pTrace' = <<>>
    /\ pGuardInText' = <<>>
    /\ pSent' = <<>>
    /\ pRaised' = NoPExc
    /\ pScheduled' = <<>>
    /\ pLog' = <<>>
    /\ pTrackFailed' = FALSE
    /\ pServed' = pServed + 1
    /\ pPc' = "rate"
    /\ rOutcome' = "none"
    /\ rRetryAfter' = 0
    /\ bOp' = "none"
    /\ bOutcome' = "none"
    /\ bExc' = NoExc
    /\ bPre' = NoBudget
    /\ bCost' = 0
    /\ fbPrimary' = NoProvider
    /\ fbModel' = NoModel
    /\ fbPc' = "idle"
    /\ fbChain' = <<>>
    /\ fbIdx' = 1
    /\ fbAttempts' = <<>>
    /\ fbLastError' = ""
    /\ fbResult' = NoFbResult
    /\ fbWaited' = 0
    /\ UNCHANGED <<pipeConfigVars, cacheStore, pTasks, guardCallVars, webhookVars,
                   streamVars, semCacheVars, laterVars>>
    /\ UNCHANGED <<rEnabled, rPerMinute, rPerHour, rMinute, rHour, rMinuteExp,
                   rHourExp, rLastCall, rAdmitted>>
    /\ UNCHANGED <<bToday, bEnabled, bDefaultLimit, bDefaultPeriod, bBudget>>
    /\ UNCHANGED <<fbEnabled, fbOrder, maskVars>>

\* step 1: await rate_limiter.check_rate_limit(str(user_id))
PRateLimit ==
    /\ pPc = "rate"
    /\ DoCheckRateLimit
    /\ UNCHANGED rNow
    /\ pTrace' = Append(pTrace, Gate("rate", rOutcome'))
    /\ IF rOutcome' = "admitted"
       THEN pPc' = "detect_in" /\ UNCHANGED pRaised
       ELSE /\ pPc' = "except"
            /\ pRaised' = [type |-> "RateLimitException", origin |-> "rate",
                           retry_after |-> rRetryAfter', violations |-> <<>>]
    /\ UNCHANGED <<cfgMasking, cfgCache, gEnabled, gBlockOnViolation, gRules,
                   cacheStore, pServed, pOrigMessages, pMessages, pProvider,
                   pModel, pText, pEntities, pViolations, pSid, pCacheHit,
                   pCached, pResp, pCompletion, pExc, pResult, pHttp, pTasks,
                   pGuardInText, pSent, pScheduled, pLog, pTrackFailed,
                   pPrevId, gTokens, gResult, gEvaluated, wEnabled,
                   wMaxRetries, wSubs, wEvent, wPc, wTasks, wReceived,
                   wPosts, wWaits, sMessages, sProvider, sPc, sSid, sSent,
                   sUpstream, sChunks, sFrames, sExc, sTrace, sMapping,
                   scEnabled, scReady, scThreshold, scStore, scOp, scQuery,
                   scFault, scSkipped, scResult, scEscaped, tArg, tContext,
                   tPc, tValid, tFound, qClock, qPerMinute, qPerHour, qPc,
                   qNow, qMinute, qHour, kStart, kSpend, kLock, kPc, kCost,
                   kRead, kWritten, aCase, aPersist, aAudit, aRows, lPc,
                   lCalls, lLocked, lWaiters, lWoken, dPatterns, dEnts,
                   dMode, dEntities, vEnabled, vVariants, vOpenai, vRand,
                   vRoute, oMaxRetries, oRetryDelay, oPc, oAttempt, oCalls,
                   oWaits>>
    /\ UNCHANGED <<maskVars, budgetVars, fallbackVars>>

\* steps 2 and 3: join the contents and detect PII in the text
PDetectIn ==
    /\ pPc = "detect_in"
    /\ pText' = JoinContents(pMessages)
    /\ pEntities' = DetectPatterns(pText')
    /\ pTrace' = Append(pTrace, Gate("detect_in", "ok"))
    /\ pPc' = "guard_in"
    /\ UNCHANGED <<cfgMasking, cfgCache, gEnabled, gBlockOnViolation, gRules,
                   cacheStore, pServed, pOrigMessages, pMessages, pProvider,
                   pModel, pViolations, pSid, pCacheHit, pCached, pResp,
                   pCompletion, pExc, pResult, pHttp, pTasks, pGuardInText,
                   pSent, pRaised, pScheduled, pLog, pTrackFailed, pPrevId,
                   gTokens, gResult, gEvaluated, wEnabled, wMaxRetries,
                   wSubs, wEvent, wPc, wTasks, wReceived, wPosts, wWaits,
                   sMessages, sProvider, sPc, sSid, sSent, sUpstream,
                   sChunks, sFrames, sExc, sTrace, sMapping, scEnabled,
                   scReady, scThreshold, scStore, scOp, scQuery, scFault,
                   scSkipped, scResult, scEscaped, tArg, tContext, tPc,
                   tValid, tFound, qClock, qPerMinute, qPerHour, qPc, qNow,
                   qMinute, qHour, kStart, kSpend, kLock, kPc, kCost, kRead,
                   kWritten, aCase, aPersist, aAudit, aRows, lPc, lCalls,
                   lLocked, lWaiters, lWoken, dPatterns, dEnts, dMode,
                   dEntities, vEnabled, vVariants, vOpenai, vRand, vRoute,
                   oMaxRetries, oRetryDelay, oPc, oAttempt, oCalls, oWaits>>
    /\ UNCHANGED <<maskVars, rateVars, budgetVars, fallbackVars>>

\* step 4: guardrail check on the input
PGuardIn ==
    /\ pPc = "guard_in"
    /\ LET r == EngineCheck(gEnabled, gBlockOnViolation, gRules, pText, pEntities, NoTokens)
           t == Task("guardrail_log", "", Len(r.violations))
       IN /\ pGuardInText' = pText
          /\ pTrace' = Append(pTrace, Gate("guard_in", Severity(r.violations)))
          /\ IF ~r.passed
             THEN /\ pViolations' = r.violations
                  /\ pTasks' = Append(pTasks, t)
                  /\ pScheduled' = Append(pScheduled, t)
             ELSE UNCHANGED <<pViolations, pTasks, pScheduled>>
          /\ IF ~r.passed /\ r.should_block
             THEN /\ pPc' = "except"
                  /\ pRaised' = [type |-> "GuardrailViolationException",
                                 origin |-> "guard_in", retry_after |-> 0,
                                 violations |-> r.violations]
             ELSE pPc' = "mask" /\ UNCHANGED pRaised
    /\ UNCHANGED <<cfgMasking, cfgCache, gEnabled, gBlockOnViolation, gRules,
                   cacheStore, pServed, pOrigMessages, pMessages, pProvider,
                   pModel, pText, pEntities, pSid, pCacheHit, pCached, pResp,
                   pCompletion, pExc, pResult, pHttp, pSent, pLog,
                   pTrackFailed, pPrevId, gTokens, gResult, gEvaluated,
                   wEnabled, wMaxRetries, wSubs, wEvent, wPc, wTasks,
                   wReceived, wPosts, wWaits, sMessages, sProvider, sPc,
                   sSid, sSent, sUpstream, sChunks, sFrames, sExc, sTrace,
                   sMapping, scEnabled, scReady, scThreshold, scStore, scOp,
                   scQuery, scFault, scSkipped, scResult, scEscaped, tArg,
                   tContext, tPc, tValid, tFound, qClock, qPerMinute,
                   qPerHour, qPc, qNow, qMinute, qHour, kStart, kSpend,
                   kLock, kPc, kCost, kRead, kWritten, aCase, aPersist,
                   aAudit, aRows, lPc, lCalls, lLocked, lWaiters, lWoken,
                   dPatterns, dEnts, dMode, dEntities, vEnabled, vVariants,
                   vOpenai, vRand, vRoute, oMaxRetries, oRetryDelay, oPc,
                   oAttempt, oCalls, oWaits>>
    /\ UNCHANGED <<maskVars, rateVars, budgetVars, fallbackVars>>

\* step 5: masking; the last message is rewritten to the masked text
PMask ==
    /\ pPc = "mask"
    /\ IF MaskNeeded(pEntities # <<>>, cfgMasking)
       THEN LET sid == SessionIds[sidCounter + 1]
                r == MaskText(pText, pEntities, sid)
            IN /\ maskStore' = (sid :> r.mapping) @@ maskStore
               /\ sidCounter' = sidCounter + 1
               /\ pSid' = sid
               /\ pMessages' = RewriteMessages(pMessages, r.masked)
               /\ pTrace' = Append(pTrace, Gate("mask", "ok"))
       ELSE UNCHANGED <<maskStore, sidCounter, pSid, pMessages, pTrace>>
    /\ pPc' = "cache_get"
    /\ UNCHANGED <<cfgMasking, cfgCache, gEnabled, gBlockOnViolation, gRules,
                   cacheStore, pServed, pOrigMessages, pProvider, pModel,
                   pText, pEntities, pViolations, pCacheHit, pCached, pResp,
                   pCompletion, pExc, pResult, pHttp, pTasks, pGuardInText,
                   pSent, pRaised, pScheduled, pLog, pTrackFailed, pPrevId,
                   gTokens, gResult, gEvaluated, wEnabled, wMaxRetries,
                   wSubs, wEvent, wPc, wTasks, wReceived, wPosts, wWaits,
                   sMessages, sProvider, sPc, sSid, sSent, sUpstream,
                   sChunks, sFrames, sExc, sTrace, sMapping, scEnabled,
                   scReady, scThreshold, scStore, scOp, scQuery, scFault,
                   scSkipped, scResult, scEscaped, tArg, tContext, tPc,
                   tValid, tFound, qClock, qPerMinute, qPerHour, qPc, qNow,
                   qMinute, qHour, kStart, kSpend, kLock, kPc, kCost, kRead,
                   kWritten, aCase, aPersist, aAudit, aRows, lPc, lCalls,
                   lLocked, lWaiters, lWoken, dPatterns, dEnts, dMode,
                   dEntities, vEnabled, vVariants, vOpenai, vRand, vRoute,
                   oMaxRetries, oRetryDelay, oPc, oAttempt, oCalls, oWaits>>
    /\ UNCHANGED <<maskerCallVars, rateVars, budgetVars, fallbackVars>>

\* step 6: cache lookup with the raw text; a stored entry may be missed
\* (expired key, or an error that semantic_cache.get swallows)
PCacheGet ==
    /\ pPc = "cache_get"
    /\ IF cfgCache
       THEN \E hit \in (IF pText \in DOMAIN cacheStore THEN BOOLEAN ELSE {FALSE}) :
              /\ pCacheHit' = hit
              /\ pCached' = IF hit THEN cacheStore[pText] ELSE NoResponse
              /\ pTrace' = Append(pTrace, Gate("cache_get", IF hit THEN "hit" ELSE "miss"))
       ELSE UNCHANGED <<pCacheHit, pCached, pTrace>>
    /\ pPc' = "budget_check"
    /\ UNCHANGED <<cfgMasking, cfgCache, gEnabled, gBlockOnViolation, gRules,
                   cacheStore, pServed, pOrigMessages, pMessages, pProvider,
                   pModel, pText, pEntities, pViolations, pSid, pResp,
                   pCompletion, pExc, pResult, pHttp, pTasks, pGuardInText,
                   pSent, pRaised, pScheduled, pLog, pTrackFailed, pPrevId,
                   gTokens, gResult, gEvaluated, wEnabled, wMaxRetries,
                   wSubs, wEvent, wPc, wTasks, wReceived, wPosts, wWaits,
                   sMessages, sProvider, sPc, sSid, sSent, sUpstream,
                   sChunks, sFrames, sExc, sTrace, sMapping, scEnabled,
                   scReady, scThreshold, scStore, scOp, scQuery, scFault,
                   scSkipped, scResult, scEscaped, tArg, tContext, tPc,
                   tValid, tFound, qClock, qPerMinute, qPerHour, qPc, qNow,
                   qMinute, qHour, kStart, kSpend, kLock, kPc, kCost, kRead,
                   kWritten, aCase, aPersist, aAudit, aRows, lPc, lCalls,
                   lLocked, lWaiters, lWoken, dPatterns, dEnts, dMode,
                   dEntities, vEnabled, vVariants, vOpenai, vRand, vRoute,
                   oMaxRetries, oRetryDelay, oPc, oAttempt, oCalls, oWaits>>
    /\ UNCHANGED <<maskVars, rateVars, budgetVars, fallbackVars>>

\* step 7: budget pre-check with the estimated cost
PBudgetCheck ==
    /\ pPc = "budget_check"
    /\ IF BudgetCheckNeeded(pCacheHit)
       THEN /\ DoCheckBudget(EstimatedCost(pText))
            /\ pTrace' = Append(pTrace, Gate("budget_check", bOutcome'))
            /\ IF bOutcome' = "exceeded"
               THEN /\ pPc' = "except"
                    /\ pRaised' = Raise("BudgetExceededException", "budget_check")
               ELSE pPc' = "route" /\ UNCHANGED pRaised
       ELSE /\ pPc' = "route"
            /\ UNCHANGED <<budgetVars, pTrace, pRaised>>
    /\ UNCHANGED <<cfgMasking, cfgCache, gEnabled, gBlockOnViolation, gRules,
                   cacheStore, pServed, pOrigMessages, pMessages, pProvider,
                   pModel, pText, pEntities, pViolations, pSid, pCacheHit,
                   pCached, pResp, pCompletion, pExc, pResult, pHttp, pTasks,
                   pGuardInText, pSent, pScheduled, pLog, pTrackFailed,
                   pPrevId, gTokens, gResult, gEvaluated, wEnabled,
                   wMaxRetries, wSubs, wEvent, wPc, wTasks, wReceived,
                   wPosts, wWaits, sMessages, sProvider, sPc, sSid, sSent,
                   sUpstream, sChunks, sFrames, sExc, sTrace, sMapping,
                   scEnabled, scReady, scThreshold, scStore, scOp, scQuery,
                   scFault, scSkipped, scResult, scEscaped, tArg, tContext,
                   tPc, tValid, tFound, qClock, qPerMinute, qPerHour, qPc,
                   qNow, qMinute, qHour, kStart, kSpend, kLock, kPc, kCost,
                   kRead, kWritten, aCase, aPersist, aAudit, aRows, lPc,
                   lCalls, lLocked, lWaiters, lWoken, dPatterns, dEnts,
                   dMode, dEntities, vEnabled, vVariants, vOpenai, vRand,
                   vRoute, oMaxRetries, oRetryDelay, oPc, oAttempt, oCalls,
                   oWaits>>
    /\ UNCHANGED <<maskVars, rateVars, fallbackVars>>

\* step 8: the envelope of a cache hit, or provider and model resolution
\* and the call of fallback_manager.execute_with_fallback
PRoute ==
    /\ pPc = "route"
    /\ IF pCacheHit
       THEN /\ pResp' = EnvelopeOnHit(pCached)
            /\ pPc' = "detect_out"
            /\ UNCHANGED <<pProvider, pModel, pSent, fallbackVars>>
       ELSE LET target == IF pProvider = NoProvider THEN RouteRequest
                          ELSE <<pProvider, pModel>>
                model == IF target[2] = NoModel THEN DefaultModelOf(target[1])
                         ELSE target[2]
            IN /\ pProvider' = target[1]
               /\ pModel' = model
               /\ FbEnter(target[1], model)
               /\ pSent' = pMessages
               /\ pPc' = "provider"
               /\ UNCHANGED pResp
    /\ UNCHANGED <<cfgMasking, cfgCache, gEnabled, gBlockOnViolation, gRules,
                   cacheStore, pServed, pOrigMessages, pMessages, pText,
                   pEntities, pViolations, pSid, pCacheHit, pCached,
                   pCompletion, pExc, pResult, pHttp, pTasks, pTrace,
                   pGuardInText, pRaised, pScheduled, pLog, pTrackFailed,
                   pPrevId, gTokens, gResult, gEvaluated, wEnabled,
                   wMaxRetries, wSubs, wEvent, wPc, wTasks, wReceived,
                   wPosts, wWaits, sMessages, sProvider, sPc, sSid, sSent,
                   sUpstream, sChunks, sFrames, sExc, sTrace, sMapping,
                   scEnabled, scReady, scThreshold, scStore, scOp, scQuery,
                   scFault, scSkipped, scResult, scEscaped, tArg, tContext,
                   tPc, tValid, tFound, qClock, qPerMinute, qPerHour, qPc,
                   qNow, qMinute, qHour, kStart, kSpend, kLock, kPc, kCost,
                   kRead, kWritten, aCase, aPersist, aAudit, aRows, lPc,
                   lCalls, lLocked, lWaiters, lWoken, dPatterns, dEnts,
                   dMode, dEntities, vEnabled, vVariants, vOpenai, vRand,
                   vRoute, oMaxRetries, oRetryDelay, oPc, oAttempt, oCalls,
                   oWaits>>
    /\ UNCHANGED <<maskVars, rateVars, budgetVars>>

\* execute_with_fallback returns a response or raises
PProviderReturn ==
    /\ pPc = "provider"
    /\ fbPc = "done"
    /\ pTrace' = Append(pTrace, Gate("provider", fbResult.status))
    /\ IF fbResult.status = "ok"
       THEN /\ \E completion \in Completions(pSent) :
                 pResp' = [completion |-> completion,
                           cost_usd |-> ProviderCost(fbResult.provider),
                           model |-> fbResult.model,
                           provider |-> fbResult.provider]
            /\ pPc' = "cache_set"
            /\ UNCHANGED pRaised
       ELSE /\ pRaised' = Raise(fbResult.exc, "provider")
            /\ pPc' = "except"
            /\ UNCHANGED pResp
    /\ UNCHANGED <<cfgMasking, cfgCache, gEnabled, gBlockOnViolation, gRules,
                   cacheStore, pServed, pOrigMessages, pMessages, pProvider,
                   pModel, pText, pEntities, pViolations, pSid, pCacheHit,
                   pCached, pCompletion, pExc, pResult, pHttp, pTasks,
                   pGuardInText, pSent, pScheduled, pLog, pTrackFailed,
                   pPrevId, gTokens, gResult, gEvaluated, wEnabled,
                   wMaxRetries, wSubs, wEvent, wPc, wTasks, wReceived,
                   wPosts, wWaits, sMessages, sProvider, sPc, sSid, sSent,
                   sUpstream, sChunks, sFrames, sExc, sTrace, sMapping,
                   scEnabled, scReady, scThreshold, scStore, scOp, scQuery,
                   scFault, scSkipped, scResult, scEscaped, tArg, tContext,
                   tPc, tValid, tFound, qClock, qPerMinute, qPerHour, qPc,
                   qNow, qMinute, qHour, kStart, kSpend, kLock, kPc, kCost,
                   kRead, kWritten, aCase, aPersist, aAudit, aRows, lPc,
                   lCalls, lLocked, lWaiters, lWoken, dPatterns, dEnts,
                   dMode, dEntities, vEnabled, vVariants, vOpenai, vRand,
                   vRoute, oMaxRetries, oRetryDelay, oPc, oAttempt, oCalls,
                   oWaits>>
    /\ UNCHANGED <<maskVars, rateVars, budgetVars, fallbackVars>>

\* step 9: semantic_cache.set(text_content, cache_data)
PCacheSet ==
    /\ pPc = "cache_set"
    /\ IF cfgCache
       THEN /\ cacheStore' = (pText :> CacheData(pResp)) @@ cacheStore
            /\ pTrace' = Append(pTrace, Gate("cache_set", "ok"))
       ELSE UNCHANGED <<cacheStore, pTrace>>
    /\ pPc' = "detect_out"
    /\ UNCHANGED <<cfgMasking, cfgCache, gEnabled, gBlockOnViolation, gRules,
                   pServed, pOrigMessages, pMessages, pProvider, pModel,
                   pText, pEntities, pViolations, pSid, pCacheHit, pCached,
                   pResp, pCompletion, pExc, pResult, pHttp, pTasks,
                   pGuardInText, pSent, pRaised, pScheduled, pLog,
                   pTrackFailed, pPrevId, gTokens, gResult, gEvaluated,
                   wEnabled, wMaxRetries, wSubs, wEvent, wPc, wTasks,
                   wReceived, wPosts, wWaits, sMessages, sProvider, sPc,
                   sSid, sSent, sUpstream, sChunks, sFrames, sExc, sTrace,
                   sMapping, scEnabled, scReady, scThreshold, scStore, scOp,
                   scQuery, scFault, scSkipped, scResult, scEscaped, tArg,
                   tContext, tPc, tValid, tFound, qClock, qPerMinute,
                   qPerHour, qPc, qNow, qMinute, qHour, kStart, kSpend,
                   kLock, kPc, kCost, kRead, kWritten, aCase, aPersist,
                   aAudit, aRows, lPc, lCalls, lLocked, lWaiters, lWoken,
                   dPatterns, dEnts, dMode, dEntities, vEnabled, vVariants,
                   vOpenai, vRand, vRoute, oMaxRetries, oRetryDelay, oPc,
                   oAttempt, oCalls, oWaits>>
    /\ UNCHANGED <<maskVars, rateVars, budgetVars, fallbackVars>>

\* step 10: PII detection on the completion and, when it finds entities,
\* the guardrail check on the output
PDetectOut ==
    /\ pPc = "detect_out"
    /\ pCompletion' = pResp.completion
    /\ LET entities == DetectPatterns(pResp.completion)
           r == EngineCheck(gEnabled, gBlockOnViolation, gRules, pResp.completion,
                            entities, NoTokens)
           t == Task("guardrail_log", "", Len(r.violations))
       IN IF entities = <<>>
          THEN /\ pTrace' = Append(pTrace, Gate("detect_out", "ok"))
               /\ pPc' = "unmask"
               /\ UNCHANGED <<pTasks, pScheduled, pRaised>>
          ELSE /\ pTrace' = pTrace \o <<Gate("detect_out", "ok"),
                                       Gate("guard_out", Severity(r.violations))>>
               /\ IF ~r.passed
                  THEN /\ pTasks' = Append(pTasks, t)
                       /\ pScheduled' = Append(pScheduled, t)
                  ELSE UNCHANGED <<pTasks, pScheduled>>
               /\ IF ~r.passed /\ r.should_block
                  THEN /\ pPc' = "except"
                       /\ pRaised' = [type |-> "GuardrailViolationException",
                                      origin |-> "guard_out", retry_after |-> 0,
                                      violations |-> r.violations]
                  ELSE pPc' = "unmask" /\ UNCHANGED pRaised
    /\ UNCHANGED <<cfgMasking, cfgCache, gEnabled, gBlockOnViolation, gRules,
                   cacheStore, pServed, pOrigMessages, pMessages, pProvider,
                   pModel, pText, pEntities, pViolations, pSid, pCacheHit,
                   pCached, pResp, pExc, pResult, pHttp, pGuardInText, pSent,
                   pLog, pTrackFailed, pPrevId, gTokens, gResult, gEvaluated,
                   wEnabled, wMaxRetries, wSubs, wEvent, wPc, wTasks,
                   wReceived, wPosts, wWaits, sMessages, sProvider, sPc,
                   sSid, sSent, sUpstream, sChunks, sFrames, sExc, sTrace,
                   sMapping, scEnabled, scReady, scThreshold, scStore, scOp,
                   scQuery, scFault, scSkipped, scResult, scEscaped, tArg,
                   tContext, tPc, tValid, tFound, qClock, qPerMinute,
                   qPerHour, qPc, qNow, qMinute, qHour, kStart, kSpend,
                   kLock, kPc, kCost, kRead, kWritten, aCase, aPersist,
                   aAudit, aRows, lPc, lCalls, lLocked, lWaiters, lWoken,
                   dPatterns, dEnts, dMode, dEntities, vEnabled, vVariants,
                   vOpenai, vRand, vRoute, oMaxRetries, oRetryDelay, oPc,
                   oAttempt, oCalls, oWaits>>
    /\ UNCHANGED <<maskVars, rateVars, budgetVars, fallbackVars>>

\* step 11: unmask the completion when a masking session exists
PUnmask ==
    /\ pPc = "unmask"
    /\ IF pSid # NoSid
       THEN /\ pCompletion' = UnmaskText(pCompletion, pSid, maskStore)
            /\ maskStore' = StoreAfterUnmask(pSid, maskStore)
            /\ pTrace' = Append(pTrace, Gate("unmask", "ok"))
       ELSE UNCHANGED <<pCompletion, maskStore, pTrace>>
    /\ pPc' = "track"
    /\ UNCHANGED <<cfgMasking, cfgCache, gEnabled, gBlockOnViolation, gRules,
                   cacheStore, pServed, pOrigMessages, pMessages, pProvider,
                   pModel, pText, pEntities, pViolations, pSid, pCacheHit,
                   pCached, pResp, pExc, pResult, pHttp, pTasks,
                   pGuardInText, pSent, pRaised, pScheduled, pLog,
                   pTrackFailed, pPrevId, gTokens, gResult, gEvaluated,
                   wEnabled, wMaxRetries, wSubs, wEvent, wPc, wTasks,
                   wReceived, wPosts, wWaits, sMessages, sProvider, sPc,
                   sSid, sSent, sUpstream, sChunks, sFrames, sExc, sTrace,
                   sMapping, scEnabled, scReady, scThreshold, scStore, scOp,
                   scQuery, scFault, scSkipped, scResult, scEscaped, tArg,
                   tContext, tPc, tValid, tFound, qClock, qPerMinute,
                   qPerHour, qPc, qNow, qMinute, qHour, kStart, kSpend,
                   kLock, kPc, kCost, kRead, kWritten, aCase, aPersist,
                   aAudit, aRows, lPc, lCalls, lLocked, lWaiters, lWoken,
                   dPatterns, dEnts, dMode, dEntities, vEnabled, vVariants,
                   vOpenai, vRand, vRoute, oMaxRetries, oRetryDelay, oPc,
                   oAttempt, oCalls, oWaits>>
    /\ UNCHANGED <<sidCounter, maskerCallVars, rateVars, budgetVars, fallbackVars>>

\* step 13: await budget_service.track_spend(user_id, cost)
PTrack ==
    /\ pPc = "track"
    /\ IF TrackNeeded(pCacheHit)
       THEN \E write_failed \in (IF bEnabled THEN BOOLEAN ELSE {FALSE}) :
              /\ DoTrackSpend(pResp.cost_usd, write_failed)
              /\ pTrackFailed' = write_failed
              /\ pTrace' = Append(pTrace, Gate("track", "ok"))
              /\ IF TrackSpendRaises(write_failed)
                 THEN /\ pPc' = "except"
                      /\ pRaised' = Raise("SQLAlchemyError", "track")
                 ELSE pPc' = "audit" /\ UNCHANGED pRaised
       ELSE /\ pPc' = "audit"
            /\ UNCHANGED <<budgetVars, pTrackFailed, pTrace, pRaised>>
    /\ UNCHANGED <<cfgMasking, cfgCache, gEnabled, gBlockOnViolation, gRules,
                   cacheStore, pServed, pOrigMessages, pMessages, pProvider,
                   pModel, pText, pEntities, pViolations, pSid, pCacheHit,
                   pCached, pResp, pCompletion, pExc, pResult, pHttp, pTasks,
                   pGuardInText, pSent, pScheduled, pLog, pPrevId, gTokens,
                   gResult, gEvaluated, wEnabled, wMaxRetries, wSubs, wEvent,
                   wPc, wTasks, wReceived, wPosts, wWaits, sMessages,
                   sProvider, sPc, sSid, sSent, sUpstream, sChunks, sFrames,
                   sExc, sTrace, sMapping, scEnabled, scReady, scThreshold,
                   scStore, scOp, scQuery, scFault, scSkipped, scResult,
                   scEscaped, tArg, tContext, tPc, tValid, tFound, qClock,
                   qPerMinute, qPerHour, qPc, qNow, qMinute, qHour, kStart,
                   kSpend, kLock, kPc, kCost, kRead, kWritten, aCase,
                   aPersist, aAudit, aRows, lPc, lCalls, lLocked, lWaiters,
                   lWoken, dPatterns, dEnts, dMode, dEntities, vEnabled,
                   vVariants, vOpenai, vRand, vRoute, oMaxRetries,
                   oRetryDelay, oPc, oAttempt, oCalls, oWaits>>
    /\ UNCHANGED <<maskVars, rateVars, fallbackVars>>

\* steps 14 and 15: create the audit task and the webhook task
PCreateTasks ==
    /\ pPc = "audit"
    /\ LET created == AuditTasks("completed")
                      \o <<Task("webhook", "request.completed", 0)>>
       IN /\ pTasks' = pTasks \o created
          /\ pScheduled' = pScheduled \o created
    /\ pPc' = "return"
    /\ UNCHANGED <<cfgMasking, cfgCache, gEnabled, gBlockOnViolation, gRules,
                   cacheStore, pServed, pOrigMessages, pMessages, pProvider,
                   pModel, pText, pEntities, pViolations, pSid, pCacheHit,
                   pCached, pResp, pCompletion, pExc, pResult, pHttp, pTrace,
                   pGuardInText, pSent, pRaised, pLog, pTrackFailed, pPrevId,
                   gTokens, gResult, gEvaluated, wEnabled, wMaxRetries,
                   wSubs, wEvent, wPc, wTasks, wReceived, wPosts, wWaits,
                   sMessages, sProvider, sPc, sSid, sSent, sUpstream,
                   sChunks, sFrames, sExc, sTrace, sMapping, scEnabled,
                   scReady, scThreshold, scStore, scOp, scQuery, scFault,
                   scSkipped, scResult, scEscaped, tArg, tContext, tPc,
                   tValid, tFound, qClock, qPerMinute, qPerHour, qPc, qNow,
                   qMinute, qHour, kStart, kSpend, kLock, kPc, kCost, kRead,
                   kWritten, aCase, aPersist, aAudit, aRows, lPc, lCalls,
                   lLocked, lWaiters, lWoken, dPatterns, dEnts, dMode,
                   dEntities, vEnabled, vVariants, vOpenai, vRand, vRoute,
                   oMaxRetries, oRetryDelay, oPc, oAttempt, oCalls, oWaits>>
    /\ UNCHANGED <<maskVars, rateVars, budgetVars, fallbackVars>>

\* return GatewayResponse(...)
PReturn ==
    /\ pPc = "return"
    /\ pResult' = [completion |-> pCompletion, cost |-> pResp.cost_usd,
                   cache_hit |-> pCacheHit, pii_detected |-> pEntities # <<>>,
                   model |-> pResp.model, provider |-> pResp.provider,
                   request_id |-> ""]
    /\ pPc' = "returned"
    /\ UNCHANGED <<cfgMasking, cfgCache, gEnabled, gBlockOnViolation, gRules,
                   cacheStore, pServed, pOrigMessages, pMessages, pProvider,
                   pModel, pText, pEntities, pViolations, pSid, pCacheHit,
                   pCached, pResp, pCompletion, pExc, pHttp, pTasks, pTrace,
                   pGuardInText, pSent, pRaised, pScheduled, pLog,
                   pTrackFailed, pPrevId, gTokens, gResult, gEvaluated,
                   wEnabled, wMaxRetries, wSubs, wEvent, wPc, wTasks,
                   wReceived, wPosts, wWaits, sMessages, sProvider, sPc,
                   sSid, sSent, sUpstream, sChunks, sFrames, sExc, sTrace,
                   sMapping, scEnabled, scReady, scThreshold, scStore, scOp,
                   scQuery, scFault, scSkipped, scResult, scEscaped, tArg,
                   tContext, tPc, tValid, tFound, qClock, qPerMinute,
                   qPerHour, qPc, qNow, qMinute, qHour, kStart, kSpend,
                   kLock, kPc, kCost, kRead, kWritten, aCase, aPersist,
                   aAudit, aRows, lPc, lCalls, lLocked, lWaiters, lWoken,
                   dPatterns, dEnts, dMode, dEntities, vEnabled, vVariants,
                   vOpenai, vRand, vRoute, oMaxRetries, oRetryDelay, oPc,
                   oAttempt, oCalls, oWaits>>
    /\ UNCHANGED <<maskVars, rateVars, budgetVars, fallbackVars>>

\* the except branch: classify, create the tasks, re-raise
PExcept ==
    /\ pPc = "except"
    /\ LET error_status == ErrorStatus(pRaised.type)
           created ==
             (IF pRaised.type = "GuardrailViolationException"
              THEN <<Task("guardrail_log", "", Len(pRaised.violations))>>
              ELSE <<>>)
             \o AuditTasks(error_status)
             \o <<Task("webhook", "request.failed", 0)>>
       IN /\ pTasks' = pTasks \o created
          /\ pScheduled' = pScheduled \o created
    /\ pExc' = pRaised
    /\ pPc' = "returned"
    /\ UNCHANGED <<cfgMasking, cfgCache, gEnabled, gBlockOnViolation, gRules,
                   cacheStore, pServed, pOrigMessages, pMessages, pProvider,
                   pModel, pText, pEntities, pViolations, pSid, pCacheHit,
                   pCached, pResp, pCompletion, pResult, pHttp, pTrace,
                   pGuardInText, pSent, pRaised, pLog, pTrackFailed, pPrevId,
                   gTokens, gResult, gEvaluated, wEnabled, wMaxRetries,
                   wSubs, wEvent, wPc, wTasks, wReceived, wPosts, wWaits,
                   sMessages, sProvider, sPc, sSid, sSent, sUpstream,
                   sChunks, sFrames, sExc, sTrace, sMapping, scEnabled,
                   scReady, scThreshold, scStore, scOp, scQuery, scFault,
                   scSkipped, scResult, scEscaped, tArg, tContext, tPc,
                   tValid, tFound, qClock, qPerMinute, qPerHour, qPc, qNow,
                   qMinute, qHour, kStart, kSpend, kLock, kPc, kCost, kRead,
                   kWritten, aCase, aPersist, aAudit, aRows, lPc, lCalls,
                   lLocked, lWaiters, lWoken, dPatterns, dEnts, dMode,
                   dEntities, vEnabled, vVariants, vOpenai, vRand, vRoute,
                   oMaxRetries, oRetryDelay, oPc, oAttempt, oCalls, oWaits>>
    /\ UNCHANGED <<maskVars, rateVars, budgetVars, fallbackVars>>

\* chat_completions: return the response, or turn the exception into an
\* HTTPException that FastAPI answers
PEndpoint ==
    /\ pPc = "returned"
    /\ pHttp' = IF pExc = NoPExc THEN [status |-> 200, retry_after_header |-> 0]
                ELSE HandlerResponse(EndpointException(pExc))
    /\ pPc' = "done"
    /\ UNCHANGED <<cfgMasking, cfgCache, gEnabled, gBlockOnViolation, gRules,
                   cacheStore, pServed, pOrigMessages, pMessages, pProvider,
                   pModel, pText, pEntities, pViolations, pSid, pCacheHit,
                   pCached, pResp, pCompletion, pExc, pResult, pTasks,
                   pTrace, pGuardInText, pSent, pRaised, pScheduled, pLog,
                   pTrackFailed, pPrevId, gTokens, gResult, gEvaluated,
                   wEnabled, wMaxRetries, wSubs, wEvent, wPc, wTasks,
                   wReceived, wPosts, wWaits, sMessages, sProvider, sPc,
                   sSid, sSent, sUpstream, sChunks, sFrames, sExc, sTrace,
                   sMapping, scEnabled, scReady, scThreshold, scStore, scOp,
                   scQuery, scFault, scSkipped, scResult, scEscaped, tArg,
                   tContext, tPc, tValid, tFound, qClock, qPerMinute,
                   qPerHour, qPc, qNow, qMinute, qHour, kStart, kSpend,
                   kLock, kPc, kCost, kRead, kWritten, aCase, aPersist,
                   aAudit, aRows, lPc, lCalls, lLocked, lWaiters, lWoken,
                   dPatterns, dEnts, dMode, dEntities, vEnabled, vVariants,
                   vOpenai, vRand, vRoute, oMaxRetries, oRetryDelay, oPc,
                   oAttempt, oCalls, oWaits>>
    /\ UNCHANGED <<maskVars, rateVars, budgetVars, fallbackVars>>

\* the event loop runs the oldest pending task to its end; the task's own
\* handlers (or the loop) absorb a failure
RunTask ==
    /\ pTasks # <<>>
    /\ AwaitPoint(pPc)
    /\ \E ok \in BOOLEAN :
         pLog' = Append(pLog, [task |-> Head(pTasks), ok |-> ok,
                               at |-> IF Head(pTasks).kind = "guardrail_log"
                                      THEN "" ELSE pPc])
    /\ pTasks' = Tail(pTasks)
    /\ UNCHANGED <<cfgMasking, cfgCache, gEnabled, gBlockOnViolation, gRules,
                   cacheStore, pPc, pServed, pOrigMessages, pMessages,
                   pProvider, pModel, pText, pEntities, pViolations, pSid,
                   pCacheHit, pCached, pResp, pCompletion, pExc, pResult,
                   pHttp, pTrace, pGuardInText, pSent, pRaised, pScheduled,
                   pTrackFailed, pPrevId, gTokens, gResult, gEvaluated,
                   wEnabled, wMaxRetries, wSubs, wEvent, wPc, wTasks,
                   wReceived, wPosts, wWaits, sMessages, sProvider, sPc,
                   sSid, sSent, sUpstream, sChunks, sFrames, sExc, sTrace,
                   sMapping, scEnabled, scReady, scThreshold, scStore, scOp,
                   scQuery, scFault, scSkipped, scResult, scEscaped, tArg,
                   tContext, tPc, tValid, tFound, qClock, qPerMinute,
                   qPerHour, qPc, qNow, qMinute, qHour, kStart, kSpend,
                   kLock, kPc, kCost, kRead, kWritten, aCase, aPersist,
                   aAudit, aRows, lPc, lCalls, lLocked, lWaiters, lWoken,
                   dPatterns, dEnts, dMode, dEntities, vEnabled, vVariants,
                   vOpenai, vRand, vRoute, oMaxRetries, oRetryDelay, oPc,
                   oAttempt, oCalls, oWaits>>
    /\ UNCHANGED <<maskVars, rateVars, budgetVars, fallbackVars>>


\* GuardrailEngine.check(text, pii_entities, tokens) called on its own
GuardCheck ==
    /\ pPc = "guard_call"
    /\ gResult' = EngineCheck(gEnabled, gBlockOnViolation, gRules, pText, pEntities, gTokens)
    /\ gEvaluated' = IF gEnabled THEN EvaluatedRules(gRules) ELSE <<>>
    /\ pPc' = "guard_done"
    /\ UNCHANGED <<cfgMasking, cfgCache, gEnabled, gBlockOnViolation, gRules,
                   cacheStore, pServed, pOrigMessages, pMessages, pProvider,
                   pModel, pText, pEntities, pViolations, pSid, pCacheHit,
                   pCached, pResp, pCompletion, pExc, pResult, pHttp, pTasks,
                   pTrace, pGuardInText, pSent, pRaised, pScheduled, pLog,
                   pTrackFailed, pPrevId, gTokens, wEnabled, wMaxRetries,
                   wSubs, wEvent, wPc, wTasks, wReceived, wPosts, wWaits,
                   sMessages, sProvider, sPc, sSid, sSent, sUpstream,
                   sChunks, sFrames, sExc, sTrace, sMapping, scEnabled,
                   scReady, scThreshold, scStore, scOp, scQuery, scFault,
                   scSkipped, scResult, scEscaped, tArg, tContext, tPc,
                   tValid, tFound, qClock, qPerMinute, qPerHour, qPc, qNow,
                   qMinute, qHour, kStart, kSpend, kLock, kPc, kCost, kRead,
                   kWritten, aCase, aPersist, aAudit, aRows, lPc, lCalls,
                   lLocked, lWaiters, lWoken, dPatterns, dEnts, dMode,
                   dEntities, vEnabled, vVariants, vOpenai, vRand, vRoute,
                   oMaxRetries, oRetryDelay, oPc, oAttempt, oCalls, oWaits>>
    /\ UNCHANGED <<maskVars, rateVars, budgetVars, fallbackVars>>

\* WebhookService.trigger_event(event_type, data); query_fails: the query of
\* the active webhooks raised
TriggerEvent ==
    \E query_fails \in BOOLEAN :
      /\ wPc = "call"
      /\ wPc' = "returned"
      /\ IF wEnabled /\ ~query_fails
         THEN wTasks' = [i \in 1..Len(wSubs) |->
                            IF i \in GetActiveWebhooks(wSubs, wEvent)
                            THEN LoopEntry(wMaxRetries)
                            ELSE NoTask]
         ELSE UNCHANGED wTasks
      /\ UNCHANGED <<cfgMasking, cfgCache, gEnabled, gBlockOnViolation,
                     gRules, cacheStore, pPc, pServed, pOrigMessages,
                     pMessages, pProvider, pModel, pText, pEntities,
                     pViolations, pSid, pCacheHit, pCached, pResp,
                     pCompletion, pExc, pResult, pHttp, pTasks, pTrace,
                     pGuardInText, pSent, pRaised, pScheduled, pLog,
                     pTrackFailed, pPrevId, gTokens, gResult, gEvaluated,
                     wEnabled, wMaxRetries, wSubs, wEvent, wReceived, wPosts,
                     wWaits, sMessages, sProvider, sPc, sSid, sSent,
                     sUpstream, sChunks, sFrames, sExc, sTrace, sMapping,
                     scEnabled, scReady, scThreshold, scStore, scOp, scQuery,
                     scFault, scSkipped, scResult, scEscaped, tArg, tContext,
                     tPc, tValid, tFound, qClock, qPerMinute, qPerHour, qPc,
                     qNow, qMinute, qHour, kStart, kSpend, kLock, kPc, kCost,
                     kRead, kWritten, aCase, aPersist, aAudit, aRows, lPc,
                     lCalls, lLocked, lWaiters, lWoken, dPatterns, dEnts,
                     dMode, dEntities, vEnabled, vVariants, vOpenai, vRand,
                     vRoute, oMaxRetries, oRetryDelay, oPc, oAttempt, oCalls,
                     oWaits>>
      /\ UNCHANGED <<maskVars, rateVars, budgetVars, fallbackVars>>

\* one pass of the retry loop of _deliver_webhook: client.post and
\* raise_for_status
PostAttempt ==
    \E i \in 1..Len(wTasks), outcome \in PostOutcomes :
      /\ MayPost(wTasks, i)
      /\ wReceived' = [wReceived EXCEPT ![i] = @ + (IF Reached(outcome) THEN 1 ELSE 0)]
      /\ wTasks' = [wTasks EXCEPT ![i] =
                       IF outcome = "success" THEN [@ EXCEPT !.pc = "delivered"]
                       ELSE AfterFailure(@, wMaxRetries)]
      /\ wPosts' = [wPosts EXCEPT ![i] = Append(@, outcome)]
      /\ wWaits' = [wWaits EXCEPT ![i] =
                       IF outcome # "success" /\ wTasks[i].attempt < wMaxRetries - 1
                       THEN Append(@, Backoff(RetryDelay, wTasks[i].attempt))
                       ELSE @]
      /\ UNCHANGED <<cfgMasking, cfgCache, gEnabled, gBlockOnViolation,
                     gRules, cacheStore, pPc, pServed, pOrigMessages,
                     pMessages, pProvider, pModel, pText, pEntities,
                     pViolations, pSid, pCacheHit, pCached, pResp,
                     pCompletion, pExc, pResult, pHttp, pTasks, pTrace,
                     pGuardInText, pSent, pRaised, pScheduled, pLog,
                     pTrackFailed, pPrevId, gTokens, gResult, gEvaluated,
                     wEnabled, wMaxRetries, wSubs, wEvent, wPc, sMessages,
                     sProvider, sPc, sSid, sSent, sUpstream, sChunks,
                     sFrames, sExc, sTrace, sMapping, scEnabled, scReady,
                     scThreshold, scStore, scOp, scQuery, scFault, scSkipped,
                     scResult, scEscaped, tArg, tContext, tPc, tValid,
                     tFound, qClock, qPerMinute, qPerHour, qPc, qNow,
                     qMinute, qHour, kStart, kSpend, kLock, kPc, kCost,
                     kRead, kWritten, aCase, aPersist, aAudit, aRows, lPc,
                     lCalls, lLocked, lWaiters, lWoken, dPatterns, dEnts,
                     dMode, dEntities, vEnabled, vVariants, vOpenai, vRand,
                     vRoute, oMaxRetries, oRetryDelay, oPc, oAttempt, oCalls,
                     oWaits>>
      /\ UNCHANGED <<maskVars, rateVars, budgetVars, fallbackVars>>

\* asyncio.sleep(retry_delay * 2 ** attempt) is over: the next pass begins
RetrySleepEnds ==
    \E i \in 1..Len(wTasks) :
      /\ wTasks[i].pc = "sleep"
      /\ wTasks' = [wTasks EXCEPT ![i] = [pc |-> "post", attempt |-> @.attempt + 1]]
      /\ UNCHANGED <<cfgMasking, cfgCache, gEnabled, gBlockOnViolation,
                     gRules, cacheStore, pPc, pServed, pOrigMessages,
                     pMessages, pProvider, pModel, pText, pEntities,
                     pViolations, pSid, pCacheHit, pCached, pResp,
                     pCompletion, pExc, pResult, pHttp, pTasks, pTrace,
                     pGuardInText, pSent, pRaised, pScheduled, pLog,
                     pTrackFailed, pPrevId, gTokens, gResult, gEvaluated,
                     wEnabled, wMaxRetries, wSubs, wEvent, wPc, wReceived,
                     wPosts, wWaits, sMessages, sProvider, sPc, sSid, sSent,
                     sUpstream, sChunks, sFrames, sExc, sTrace, sMapping,
                     scEnabled, scReady, scThreshold, scStore, scOp, scQuery,
                     scFault, scSkipped, scResult, scEscaped, tArg, tContext,
                     tPc, tValid, tFound, qClock, qPerMinute, qPerHour, qPc,
                     qNow, qMinute, qHour, kStart, kSpend, kLock, kPc, kCost,
                     kRead, kWritten, aCase, aPersist, aAudit, aRows, lPc,
                     lCalls, lLocked, lWaiters, lWoken, dPatterns, dEnts,
                     dMode, dEntities, vEnabled, vVariants, vOpenai, vRand,
                     vRoute, oMaxRetries, oRetryDelay, oPc, oAttempt, oCalls,
                     oWaits>>
      /\ UNCHANGED <<maskVars, rateVars, budgetVars, fallbackVars>>

(***************************************************************************)
(* The streaming path: stream_completion from one step to the next.        *)
(***************************************************************************)
\* pii_detector.detect on the joined contents
SDetect ==
    /\ sPc = "detect"
    /\ sTrace' = Append(sTrace, "detect_in")
    /\ sPc' = "mask"
    /\ UNCHANGED <<cfgMasking, cfgCache, gEnabled, gBlockOnViolation, gRules,
                   cacheStore, pPc, pServed, pOrigMessages, pMessages,
                   pProvider, pModel, pText, pEntities, pViolations, pSid,
                   pCacheHit, pCached, pResp, pCompletion, pExc, pResult,
                   pHttp, pTasks, pTrace, pGuardInText, pSent, pRaised,
                   pScheduled, pLog, pTrackFailed, pPrevId, gTokens, gResult,
                   gEvaluated, wEnabled, wMaxRetries, wSubs, wEvent, wPc,
                   wTasks, wReceived, wPosts, wWaits, sMessages, sProvider,
                   sSid, sSent, sUpstream, sChunks, sFrames, sExc, sMapping,
                   scEnabled, scReady, scThreshold, scStore, scOp, scQuery,
                   scFault, scSkipped, scResult, scEscaped, tArg, tContext,
                   tPc, tValid, tFound, qClock, qPerMinute, qPerHour, qPc,
                   qNow, qMinute, qHour, kStart, kSpend, kLock, kPc, kCost,
                   kRead, kWritten, aCase, aPersist, aAudit, aRows, lPc,
                   lCalls, lLocked, lWaiters, lWoken, dPatterns, dEnts,
                   dMode, dEntities, vEnabled, vVariants, vOpenai, vRand,
                   vRoute, oMaxRetries, oRetryDelay, oPc, oAttempt, oCalls,
                   oWaits>>
    /\ UNCHANGED <<maskVars, rateVars, budgetVars, fallbackVars>>

\* masking: the last message is rewritten to the masked text
SMask ==
    /\ sPc = "mask"
    /\ LET text == JoinContents(sMessages)
           entities == DetectPatterns(text)
       IN IF entities # <<>> /\ cfgMasking
          THEN LET sid == SessionIds[sidCounter + 1]
                   r == MaskText(text, entities, sid)
               IN /\ maskStore' = (sid :> r.mapping) @@ maskStore
                  /\ sidCounter' = sidCounter + 1
                  /\ sSid' = sid
                  /\ sMapping' = r.mapping
                  /\ sSent' = RewriteMessages(sMessages, r.masked)
                  /\ sTrace' = Append(sTrace, "mask")
          ELSE UNCHANGED <<maskStore, sidCounter, sSid, sMapping, sSent, sTrace>>
    /\ sPc' = "open"
    /\ UNCHANGED <<cfgMasking, cfgCache, gEnabled, gBlockOnViolation, gRules,
                   cacheStore, pPc, pServed, pOrigMessages, pMessages,
                   pProvider, pModel, pText, pEntities, pViolations, pSid,
                   pCacheHit, pCached, pResp, pCompletion, pExc, pResult,
                   pHttp, pTasks, pTrace, pGuardInText, pSent, pRaised,
                   pScheduled, pLog, pTrackFailed, pPrevId, gTokens, gResult,
                   gEvaluated, wEnabled, wMaxRetries, wSubs, wEvent, wPc,
                   wTasks, wReceived, wPosts, wWaits, sMessages, sProvider,
                   sUpstream, sChunks, sFrames, sExc, scEnabled, scReady,
                   scThreshold, scStore, scOp, scQuery, scFault, scSkipped,
                   scResult, scEscaped, tArg, tContext, tPc, tValid, tFound,
                   qClock, qPerMinute, qPerHour, qPc, qNow, qMinute, qHour,
                   kStart, kSpend, kLock, kPc, kCost, kRead, kWritten, aCase,
                   aPersist, aAudit, aRows, lPc, lCalls, lLocked, lWaiters,
                   lWoken, dPatterns, dEnts, dMode, dEntities, vEnabled,
                   vVariants, vOpenai, vRand, vRoute, oMaxRetries,
                   oRetryDelay, oPc, oAttempt, oCalls, oWaits>>
    /\ UNCHANGED <<maskerCallVars, rateVars, budgetVars, fallbackVars>>

\* provider and model are determined, the provider is looked up and its
\* stream is opened
SOpen ==
    /\ sPc = "open"
    /\ LET provider == IF sProvider = NoProvider THEN RouteRequest[1] ELSE sProvider
       IN IF provider \notin KnownProviders
          THEN /\ sExc' = "ValueError"
               /\ sPc' = "except"
               /\ UNCHANGED <<sUpstream, sTrace>>
          ELSE /\ \E completion \in StreamCompletions(sSent) :
                     sUpstream' \in Chunkings(completion, MaxChunks)
               /\ sTrace' = Append(sTrace, "provider")
               /\ sPc' = "stream"
               /\ UNCHANGED sExc
    /\ UNCHANGED <<cfgMasking, cfgCache, gEnabled, gBlockOnViolation, gRules,
                   cacheStore, pPc, pServed, pOrigMessages, pMessages,
                   pProvider, pModel, pText, pEntities, pViolations, pSid,
                   pCacheHit, pCached, pResp, pCompletion, pExc, pResult,
                   pHttp, pTasks, pTrace, pGuardInText, pSent, pRaised,
                   pScheduled, pLog, pTrackFailed, pPrevId, gTokens, gResult,
                   gEvaluated, wEnabled, wMaxRetries, wSubs, wEvent, wPc,
                   wTasks, wReceived, wPosts, wWaits, sMessages, sProvider,
                   sSid, sSent, sChunks, sFrames, sMapping, scEnabled,
                   scReady, scThreshold, scStore, scOp, scQuery, scFault,
                   scSkipped, scResult, scEscaped, tArg, tContext, tPc,
                   tValid, tFound, qClock, qPerMinute, qPerHour, qPc, qNow,
                   qMinute, qHour, kStart, kSpend, kLock, kPc, kCost, kRead,
                   kWritten, aCase, aPersist, aAudit, aRows, lPc, lCalls,
                   lLocked, lWaiters, lWoken, dPatterns, dEnts, dMode,
                   dEntities, vEnabled, vVariants, vOpenai, vRand, vRoute,
                   oMaxRetries, oRetryDelay, oPc, oAttempt, oCalls, oWaits>>
    /\ UNCHANGED <<maskVars, rateVars, budgetVars, fallbackVars>>

\* one pass of the async for: the chunk is unmasked if there is a session,
\* and yielded
SChunk ==
    /\ sPc = "stream"
    /\ sUpstream # <<>>
    /\ LET chunk == Head(sUpstream)
       IN /\ sChunks' = Append(sChunks, chunk)
          /\ sUpstream' = Tail(sUpstream)
          /\ IF sSid # NoSid
             THEN /\ sFrames' = Append(sFrames, DataFrame(UnmaskText(chunk, sSid, maskStore)))
                  /\ maskStore' = StoreAfterUnmask(sSid, maskStore)
             ELSE /\ sFrames' = Append(sFrames, DataFrame(chunk))
                  /\ UNCHANGED maskStore
    /\ UNCHANGED <<cfgMasking, cfgCache, gEnabled, gBlockOnViolation, gRules,
                   cacheStore, pPc, pServed, pOrigMessages, pMessages,
                   pProvider, pModel, pText, pEntities, pViolations, pSid,
                   pCacheHit, pCached, pResp, pCompletion, pExc, pResult,
                   pHttp, pTasks, pTrace, pGuardInText, pSent, pRaised,
                   pScheduled, pLog, pTrackFailed, pPrevId, gTokens, gResult,
                   gEvaluated, wEnabled, wMaxRetries, wSubs, wEvent, wPc,
                   wTasks, wReceived, wPosts, wWaits, sMessages, sProvider,
                   sPc, sSid, sSent, sExc, sTrace, sMapping, scEnabled,
                   scReady, scThreshold, scStore, scOp, scQuery, scFault,
                   scSkipped, scResult, scEscaped, tArg, tContext, tPc,
                   tValid, tFound, qClock, qPerMinute, qPerHour, qPc, qNow,
                   qMinute, qHour, kStart, kSpend, kLock, kPc, kCost, kRead,
                   kWritten, aCase, aPersist, aAudit, aRows, lPc, lCalls,
                   lLocked, lWaiters, lWoken, dPatterns, dEnts, dMode,
                   dEntities, vEnabled, vVariants, vOpenai, vRand, vRoute,
                   oMaxRetries, oRetryDelay, oPc, oAttempt, oCalls, oWaits>>
    /\ UNCHANGED <<sidCounter, maskerCallVars, rateVars, budgetVars, fallbackVars>>

\* the upstream iterator ends: data: [DONE]
SUpstreamEnds ==
    /\ sPc = "stream"
    /\ sUpstream = <<>>
    /\ sFrames' = Append(sFrames, DoneFrame)
    /\ sPc' = "closed"
    /\ UNCHANGED <<cfgMasking, cfgCache, gEnabled, gBlockOnViolation, gRules,
                   cacheStore, pPc, pServed, pOrigMessages, pMessages,
                   pProvider, pModel, pText, pEntities, pViolations, pSid,
                   pCacheHit, pCached, pResp, pCompletion, pExc, pResult,
                   pHttp, pTasks, pTrace, pGuardInText, pSent, pRaised,
                   pScheduled, pLog, pTrackFailed, pPrevId, gTokens, gResult,
                   gEvaluated, wEnabled, wMaxRetries, wSubs, wEvent, wPc,
                   wTasks, wReceived, wPosts, wWaits, sMessages, sProvider,
                   sSid, sSent, sUpstream, sChunks, sExc, sTrace, sMapping,
                   scEnabled, scReady, scThreshold, scStore, scOp, scQuery,
                   scFault, scSkipped, scResult, scEscaped, tArg, tContext,
                   tPc, tValid, tFound, qClock, qPerMinute, qPerHour, qPc,
                   qNow, qMinute, qHour, kStart, kSpend, kLock, kPc, kCost,
                   kRead, kWritten, aCase, aPersist, aAudit, aRows, lPc,
                   lCalls, lLocked, lWaiters, lWoken, dPatterns, dEnts,
                   dMode, dEntities, vEnabled, vVariants, vOpenai, vRand,
                   vRoute, oMaxRetries, oRetryDelay, oPc, oAttempt, oCalls,
                   oWaits>>
    /\ UNCHANGED <<maskVars, rateVars, budgetVars, fallbackVars>>

\* the provider's stream raises ProviderException, before or between chunks
SUpstreamFails ==
    /\ sPc = "stream"
    /\ sExc' = "ProviderException"
    /\ sPc' = "except"
    /\ UNCHANGED <<cfgMasking, cfgCache, gEnabled, gBlockOnViolation, gRules,
                   cacheStore, pPc, pServed, pOrigMessages, pMessages,
                   pProvider, pModel, pText, pEntities, pViolations, pSid,
                   pCacheHit, pCached, pResp, pCompletion, pExc, pResult,
                   pHttp, pTasks, pTrace, pGuardInText, pSent, pRaised,
                   pScheduled, pLog, pTrackFailed, pPrevId, gTokens, gResult,
                   gEvaluated, wEnabled, wMaxRetries, wSubs, wEvent, wPc,
                   wTasks, wReceived, wPosts, wWaits, sMessages, sProvider,
                   sSid, sSent, sUpstream, sChunks, sFrames, sTrace,
                   sMapping, scEnabled, scReady, scThreshold, scStore, scOp,
                   scQuery, scFault, scSkipped, scResult, scEscaped, tArg,
                   tContext, tPc, tValid, tFound, qClock, qPerMinute,
                   qPerHour, qPc, qNow, qMinute, qHour, kStart, kSpend,
                   kLock, kPc, kCost, kRead, kWritten, aCase, aPersist,
                   aAudit, aRows, lPc, lCalls, lLocked, lWaiters, lWoken,
                   dPatterns, dEnts, dMode, dEntities, vEnabled, vVariants,
                   vOpenai, vRand, vRoute, oMaxRetries, oRetryDelay, oPc,
                   oAttempt, oCalls, oWaits>>
    /\ UNCHANGED <<maskVars, rateVars, budgetVars, fallbackVars>>

\* the except branch: data: [ERROR] <msg>
SExcept ==
    /\ sPc = "except"
    /\ IF Caught(sExc)
       THEN /\ sFrames' = Append(sFrames, ErrorFrame)
            /\ sPc' = "closed"
       ELSE /\ sPc' = "raised"
            /\ UNCHANGED sFrames
    /\ UNCHANGED <<cfgMasking, cfgCache, gEnabled, gBlockOnViolation, gRules,
                   cacheStore, pPc, pServed, pOrigMessages, pMessages,
                   pProvider, pModel, pText, pEntities, pViolations, pSid,
                   pCacheHit, pCached, pResp, pCompletion, pExc, pResult,
                   pHttp, pTasks, pTrace, pGuardInText, pSent, pRaised,
                   pScheduled, pLog, pTrackFailed, pPrevId, gTokens, gResult,
                   gEvaluated, wEnabled, wMaxRetries, wSubs, wEvent, wPc,
                   wTasks, wReceived, wPosts, wWaits, sMessages, sProvider,
                   sSid, sSent, sUpstream, sChunks, sExc, sTrace, sMapping,
                   scEnabled, scReady, scThreshold, scStore, scOp, scQuery,
                   scFault, scSkipped, scResult, scEscaped, tArg, tContext,
                   tPc, tValid, tFound, qClock, qPerMinute, qPerHour, qPc,
                   qNow, qMinute, qHour, kStart, kSpend, kLock, kPc, kCost,
                   kRead, kWritten, aCase, aPersist, aAudit, aRows, lPc,
                   lCalls, lLocked, lWaiters, lWoken, dPatterns, dEnts,
                   dMode, dEntities, vEnabled, vVariants, vOpenai, vRand,
                   vRoute, oMaxRetries, oRetryDelay, oPc, oAttempt, oCalls,
                   oWaits>>
    /\ UNCHANGED <<maskVars, rateVars, budgetVars, fallbackVars>>

\* SemanticCache.get(query_text): the whole call
CacheGet ==
    \E text \in CacheTexts, fault \in GetFaults,
       order \in ScanOrders(DOMAIN scStore),
       skipped \in {{}} \cup {{k} : k \in DOMAIN scStore} :
      /\ (~scEnabled \/ ~scReady) => fault = "none"
      /\ (fault = "hgetall") <=> (skipped # {})
      /\ scOp' = "get"
      /\ scQuery' = text
      /\ scFault' = fault
      /\ scSkipped' = skipped
      /\ scResult' = IF ~scEnabled \/ ~scReady THEN CacheMiss
                     ELSE IF fault \in {"embed", "scan"} /\ CacheCaught(fault) THEN CacheMiss
                     ELSE GetResult(BestMatch(order, scStore, Embed(text), skipped),
                                    scThreshold)
      /\ scEscaped' = (fault # "none" /\ ~CacheCaught(fault))
      /\ UNCHANGED <<cfgMasking, cfgCache, gEnabled, gBlockOnViolation,
                     gRules, cacheStore, pPc, pServed, pOrigMessages,
                     pMessages, pProvider, pModel, pText, pEntities,
                     pViolations, pSid, pCacheHit, pCached, pResp,
                     pCompletion, pExc, pResult, pHttp, pTasks, pTrace,
                     pGuardInText, pSent, pRaised, pScheduled, pLog,
                     pTrackFailed, pPrevId, gTokens, gResult, gEvaluated,
                     wEnabled, wMaxRetries, wSubs, wEvent, wPc, wTasks,
                     wReceived, wPosts, wWaits, sMessages, sProvider, sPc,
                     sSid, sSent, sUpstream, sChunks, sFrames, sExc, sTrace,
                     sMapping, scEnabled, scReady, scThreshold, scStore,
                     tArg, tContext, tPc, tValid, tFound, qClock, qPerMinute,
                     qPerHour, qPc, qNow, qMinute, qHour, kStart, kSpend,
                     kLock, kPc, kCost, kRead, kWritten, aCase, aPersist,
                     aAudit, aRows, lPc, lCalls, lLocked, lWaiters, lWoken,
                     dPatterns, dEnts, dMode, dEntities, vEnabled, vVariants,
                     vOpenai, vRand, vRoute, oMaxRetries, oRetryDelay, oPc,
                     oAttempt, oCalls, oWaits>>
      /\ UNCHANGED <<maskVars, rateVars, budgetVars, fallbackVars>>

\* SemanticCache.set(query_text, response): the whole call; an HSET on an
\* existing key leaves the key's TTL as it is, EXPIRE then renews it
CacheSet ==
    \E text \in CacheTexts, response \in CacheResponses, fault \in SetFaults :
      LET key == CacheKey(text)
          written == scEnabled /\ scReady /\ fault \notin {"embed", "hset"}
      IN /\ key \in DOMAIN scStore \/ Cardinality(DOMAIN scStore) < MaxCacheEntries
         /\ (~scEnabled \/ ~scReady) => fault = "none"
         /\ scOp' = "set"
         /\ scQuery' = text
         /\ scFault' = fault
         /\ scStore' = IF written
                       THEN (key :> [vector |-> Embed(text), response |-> response,
                                     ttl |-> IF fault = "expire"
                                             THEN key \in DOMAIN scStore /\ scStore[key].ttl
                                             ELSE TRUE]) @@ scStore
                       ELSE scStore
         /\ scEscaped' = (fault # "none" /\ ~CacheCaught(fault))
         /\ scSkipped' = {}
         /\ scResult' = CacheMiss
         /\ UNCHANGED <<cfgMasking, cfgCache, gEnabled, gBlockOnViolation,
                        gRules, cacheStore, pPc, pServed, pOrigMessages,
                        pMessages, pProvider, pModel, pText, pEntities,
                        pViolations, pSid, pCacheHit, pCached, pResp,
                        pCompletion, pExc, pResult, pHttp, pTasks, pTrace,
                        pGuardInText, pSent, pRaised, pScheduled, pLog,
                        pTrackFailed, pPrevId, gTokens, gResult, gEvaluated,
                        wEnabled, wMaxRetries, wSubs, wEvent, wPc, wTasks,
                        wReceived, wPosts, wWaits, sMessages, sProvider, sPc,
                        sSid, sSent, sUpstream, sChunks, sFrames, sExc,
                        sTrace, sMapping, scEnabled, scReady, scThreshold,
                        tArg, tContext, tPc, tValid, tFound, qClock,
                        qPerMinute, qPerHour, qPc, qNow, qMinute, qHour,
                        kStart, kSpend, kLock, kPc, kCost, kRead, kWritten,
                        aCase, aPersist, aAudit, aRows, lPc, lCalls, lLocked,
                        lWaiters, lWoken, dPatterns, dEnts, dMode, dEntities,
                        vEnabled, vVariants, vOpenai, vRand, vRoute,
                        oMaxRetries, oRetryDelay, oPc, oAttempt, oCalls,
                        oWaits>>
         /\ UNCHANGED <<maskVars, rateVars, budgetVars, fallbackVars>>

\* Redis drops a key whose TTL (cache.ttl) ran out
CacheExpire ==
    \E key \in DOMAIN scStore :
      /\ scStore[key].ttl
      /\ scStore' = [k \in (DOMAIN scStore) \ {key} |-> scStore[k]]
      /\ scOp' = "expire"
      /\ scQuery' = key
      /\ scFault' = "none"
      /\ scSkipped' = {}
      /\ scResult' = CacheMiss
      /\ scEscaped' = FALSE
      /\ UNCHANGED <<cfgMasking, cfgCache, gEnabled, gBlockOnViolation,
                     gRules, cacheStore, pPc, pServed, pOrigMessages,
                     pMessages, pProvider, pModel, pText, pEntities,
                     pViolations, pSid, pCacheHit, pCached, pResp,
                     pCompletion, pExc, pResult, pHttp, pTasks, pTrace,
                     pGuardInText, pSent, pRaised, pScheduled, pLog,
                     pTrackFailed, pPrevId, gTokens, gResult, gEvaluated,
                     wEnabled, wMaxRetries, wSubs, wEvent, wPc, wTasks,
                     wReceived, wPosts, wWaits, sMessages, sProvider, sPc,
                     sSid, sSent, sUpstream, sChunks, sFrames, sExc, sTrace,
                     sMapping, scEnabled, scReady, scThreshold, tArg,
                     tContext, tPc, tValid, tFound, qClock, qPerMinute,
                     qPerHour, qPc, qNow, qMinute, qHour, kStart, kSpend,
                     kLock, kPc, kCost, kRead, kWritten, aCase, aPersist,
                     aAudit, aRows, lPc, lCalls, lLocked, lWaiters, lWoken,
                     dPatterns, dEnts, dMode, dEntities, vEnabled, vVariants,
                     vOpenai, vRand, vRoute, oMaxRetries, oRetryDelay, oPc,
                     oAttempt, oCalls, oWaits>>
      /\ UNCHANGED <<maskVars, rateVars, budgetVars, fallbackVars>>

(***************************************************************************)
(* validate_tckn and find_pattern_matches for TCKN (app/pii/patterns.py).  *)
(***************************************************************************)
\* validate_tckn(tArg)
TcknValidate ==
    /\ tPc = "input"
    /\ tValid' = ValidateTckn(tArg)
    /\ tPc' = "validated"
    /\ UNCHANGED <<cfgMasking, cfgCache, gEnabled, gBlockOnViolation, gRules,
                   cacheStore, pPc, pServed, pOrigMessages, pMessages,
                   pProvider, pModel, pText, pEntities, pViolations, pSid,
                   pCacheHit, pCached, pResp, pCompletion, pExc, pResult,
                   pHttp, pTasks, pTrace, pGuardInText, pSent, pRaised,
                   pScheduled, pLog, pTrackFailed, pPrevId, gTokens, gResult,
                   gEvaluated, wEnabled, wMaxRetries, wSubs, wEvent, wPc,
                   wTasks, wReceived, wPosts, wWaits, sMessages, sProvider,
                   sPc, sSid, sSent, sUpstream, sChunks, sFrames, sExc,
                   sTrace, sMapping, scEnabled, scReady, scThreshold,
                   scStore, scOp, scQuery, scFault, scSkipped, scResult,
                   scEscaped, tArg, tContext, tFound, qClock, qPerMinute,
                   qPerHour, qPc, qNow, qMinute, qHour, kStart, kSpend,
                   kLock, kPc, kCost, kRead, kWritten, aCase, aPersist,
                   aAudit, aRows, lPc, lCalls, lLocked, lWaiters, lWoken,
                   dPatterns, dEnts, dMode, dEntities, vEnabled, vVariants,
                   vOpenai, vRand, vRoute, oMaxRetries, oRetryDelay, oPc,
                   oAttempt, oCalls, oWaits>>
    /\ UNCHANGED <<maskVars, rateVars, budgetVars, fallbackVars>>

\* find_pattern_matches(text, TCKN_PATTERN, PIIType.TCKN) on the text that
\* holds tArg in its context
TcknDetect ==
    /\ tPc = "validated"
    /\ tFound' = FindTcknMatches(tContext[1] \o tArg \o tContext[2], 1)
    /\ tPc' = "detected"
    /\ UNCHANGED <<cfgMasking, cfgCache, gEnabled, gBlockOnViolation, gRules,
                   cacheStore, pPc, pServed, pOrigMessages, pMessages,
                   pProvider, pModel, pText, pEntities, pViolations, pSid,
                   pCacheHit, pCached, pResp, pCompletion, pExc, pResult,
                   pHttp, pTasks, pTrace, pGuardInText, pSent, pRaised,
                   pScheduled, pLog, pTrackFailed, pPrevId, gTokens, gResult,
                   gEvaluated, wEnabled, wMaxRetries, wSubs, wEvent, wPc,
                   wTasks, wReceived, wPosts, wWaits, sMessages, sProvider,
                   sPc, sSid, sSent, sUpstream, sChunks, sFrames, sExc,
                   sTrace, sMapping, scEnabled, scReady, scThreshold,
                   scStore, scOp, scQuery, scFault, scSkipped, scResult,
                   scEscaped, tArg, tContext, tValid, qClock, qPerMinute,
                   qPerHour, qPc, qNow, qMinute, qHour, kStart, kSpend,
                   kLock, kPc, kCost, kRead, kWritten, aCase, aPersist,
                   aAudit, aRows, lPc, lCalls, lLocked, lWaiters, lWoken,
                   dPatterns, dEnts, dMode, dEntities, vEnabled, vVariants,
                   vOpenai, vRand, vRoute, oMaxRetries, oRetryDelay, oPc,
                   oAttempt, oCalls, oWaits>>
    /\ UNCHANGED <<maskVars, rateVars, budgetVars, fallbackVars>>

(***************************************************************************)
(* check_rate_limit, one await at a time (app/core/rate_limiter.py 50-104).*)
(***************************************************************************)
\* time.time() moves on
QTick ==
    /\ qClock < MaxRaceClock
    /\ qClock' = qClock + 1
    /\ UNCHANGED <<cfgMasking, cfgCache, gEnabled, gBlockOnViolation, gRules,
                   cacheStore, pPc, pServed, pOrigMessages, pMessages,
                   pProvider, pModel, pText, pEntities, pViolations, pSid,
                   pCacheHit, pCached, pResp, pCompletion, pExc, pResult,
                   pHttp, pTasks, pTrace, pGuardInText, pSent, pRaised,
                   pScheduled, pLog, pTrackFailed, pPrevId, gTokens, gResult,
                   gEvaluated, wEnabled, wMaxRetries, wSubs, wEvent, wPc,
                   wTasks, wReceived, wPosts, wWaits, sMessages, sProvider,
                   sPc, sSid, sSent, sUpstream, sChunks, sFrames, sExc,
                   sTrace, sMapping, scEnabled, scReady, scThreshold,
                   scStore, scOp, scQuery, scFault, scSkipped, scResult,
                   scEscaped, tArg, tContext, tPc, tValid, tFound,
                   qPerMinute, qPerHour, qPc, qNow, qMinute, qHour, kStart,
                   kSpend, kLock, kPc, kCost, kRead, kWritten, aCase,
                   aPersist, aAudit, aRows, lPc, lCalls, lLocked, lWaiters,
                   lWoken, dPatterns, dEnts, dMode, dEntities, vEnabled,
                   vVariants, vOpenai, vRand, vRoute, oMaxRetries,
                   oRetryDelay, oPc, oAttempt, oCalls, oWaits>>
    /\ UNCHANGED <<maskVars, rateVars, budgetVars, fallbackVars>>

\* the call starts: now = time.time()
QStart(c) ==
    /\ qPc[c] = "idle"
    /\ qNow' = [qNow EXCEPT ![c] = qClock]
    /\ qPc' = [qPc EXCEPT ![c] = "zcount_minute"]
    /\ UNCHANGED <<cfgMasking, cfgCache, gEnabled, gBlockOnViolation, gRules,
                   cacheStore, pPc, pServed, pOrigMessages, pMessages,
                   pProvider, pModel, pText, pEntities, pViolations, pSid,
                   pCacheHit, pCached, pResp, pCompletion, pExc, pResult,
                   pHttp, pTasks, pTrace, pGuardInText, pSent, pRaised,
                   pScheduled, pLog, pTrackFailed, pPrevId, gTokens, gResult,
                   gEvaluated, wEnabled, wMaxRetries, wSubs, wEvent, wPc,
                   wTasks, wReceived, wPosts, wWaits, sMessages, sProvider,
                   sPc, sSid, sSent, sUpstream, sChunks, sFrames, sExc,
                   sTrace, sMapping, scEnabled, scReady, scThreshold,
                   scStore, scOp, scQuery, scFault, scSkipped, scResult,
                   scEscaped, tArg, tContext, tPc, tValid, tFound, qClock,
                   qPerMinute, qPerHour, qMinute, qHour, kStart, kSpend,
                   kLock, kPc, kCost, kRead, kWritten, aCase, aPersist,
                   aAudit, aRows, lPc, lCalls, lLocked, lWaiters, lWoken,
                   dPatterns, dEnts, dMode, dEntities, vEnabled, vVariants,
                   vOpenai, vRand, vRoute, oMaxRetries, oRetryDelay, oPc,
                   oAttempt, oCalls, oWaits>>
    /\ UNCHANGED <<maskVars, rateVars, budgetVars, fallbackVars>>

\* minute_count = await redis.zcount(minute_key, now - 60, now), and the test
QZCountMinute(c) ==
    /\ qPc[c] = "zcount_minute"
    /\ LET minute_count == ZCount(qMinute, qNow[c] - MinuteWindow, qNow[c])
       IN qPc' = [qPc EXCEPT ![c] = IF LimitReached(minute_count, qPerMinute)
                                    THEN "rejected"
                                    ELSE "zcount_hour"]
    /\ UNCHANGED <<cfgMasking, cfgCache, gEnabled, gBlockOnViolation, gRules,
                   cacheStore, pPc, pServed, pOrigMessages, pMessages,
                   pProvider, pModel, pText, pEntities, pViolations, pSid,
                   pCacheHit, pCached, pResp, pCompletion, pExc, pResult,
                   pHttp, pTasks, pTrace, pGuardInText, pSent, pRaised,
                   pScheduled, pLog, pTrackFailed, pPrevId, gTokens, gResult,
                   gEvaluated, wEnabled, wMaxRetries, wSubs, wEvent, wPc,
                   wTasks, wReceived, wPosts, wWaits, sMessages, sProvider,
                   sPc, sSid, sSent, sUpstream, sChunks, sFrames, sExc,
                   sTrace, sMapping, scEnabled, scReady, scThreshold,
                   scStore, scOp, scQuery, scFault, scSkipped, scResult,
                   scEscaped, tArg, tContext, tPc, tValid, tFound, qClock,
                   qPerMinute, qPerHour, qNow, qMinute, qHour, kStart,
                   kSpend, kLock, kPc, kCost, kRead, kWritten, aCase,
                   aPersist, aAudit, aRows, lPc, lCalls, lLocked, lWaiters,
                   lWoken, dPatterns, dEnts, dMode, dEntities, vEnabled,
                   vVariants, vOpenai, vRand, vRoute, oMaxRetries,
                   oRetryDelay, oPc, oAttempt, oCalls, oWaits>>
    /\ UNCHANGED <<maskVars, rateVars, budgetVars, fallbackVars>>

\* hour_count = await redis.zcount(hour_key, now - 3600, now), and the test
QZCountHour(c) ==
    /\ qPc[c] = "zcount_hour"
    /\ LET hour_count == ZCount(qHour, qNow[c] - HourWindow, qNow[c])
       IN qPc' = [qPc EXCEPT ![c] = IF LimitReached(hour_count, qPerHour)
                                    THEN "rejected"
                                    ELSE "zadd_minute"]
    /\ UNCHANGED <<cfgMasking, cfgCache, gEnabled, gBlockOnViolation, gRules,
                   cacheStore, pPc, pServed, pOrigMessages, pMessages,
                   pProvider, pModel, pText, pEntities, pViolations, pSid,
                   pCacheHit, pCached, pResp, pCompletion, pExc, pResult,
                   pHttp, pTasks, pTrace, pGuardInText, pSent, pRaised,
                   pScheduled, pLog, pTrackFailed, pPrevId, gTokens, gResult,
                   gEvaluated, wEnabled, wMaxRetries, wSubs, wEvent, wPc,
                   wTasks, wReceived, wPosts, wWaits, sMessages, sProvider,
                   sPc, sSid, sSent, sUpstream, sChunks, sFrames, sExc,
                   sTrace, sMapping, scEnabled, scReady, scThreshold,
                   scStore, scOp, scQuery, scFault, scSkipped, scResult,
                   scEscaped, tArg, tContext, tPc, tValid, tFound, qClock,
                   qPerMinute, qPerHour, qNow, qMinute, qHour, kStart,
                   kSpend, kLock, kPc, kCost, kRead, kWritten, aCase,
                   aPersist, aAudit, aRows, lPc, lCalls, lLocked, lWaiters,
                   lWoken, dPatterns, dEnts, dMode, dEntities, vEnabled,
                   vVariants, vOpenai, vRand, vRoute, oMaxRetries,
                   oRetryDelay, oPc, oAttempt, oCalls, oWaits>>
    /\ UNCHANGED <<maskVars, rateVars, budgetVars, fallbackVars>>

\* await redis.zadd(minute_key, {str(now): now})
QZAddMinute(c) ==
    /\ qPc[c] = "zadd_minute"
    /\ qMinute' = qMinute \cup {qNow[c]}
    /\ qPc' = [qPc EXCEPT ![c] = "zadd_hour"]
    /\ UNCHANGED <<cfgMasking, cfgCache, gEnabled, gBlockOnViolation, gRules,
                   cacheStore, pPc, pServed, pOrigMessages, pMessages,
                   pProvider, pModel, pText, pEntities, pViolations, pSid,
                   pCacheHit, pCached, pResp, pCompletion, pExc, pResult,
                   pHttp, pTasks, pTrace, pGuardInText, pSent, pRaised,
                   pScheduled, pLog, pTrackFailed, pPrevId, gTokens, gResult,
                   gEvaluated, wEnabled, wMaxRetries, wSubs, wEvent, wPc,
                   wTasks, wReceived, wPosts, wWaits, sMessages, sProvider,
                   sPc, sSid, sSent, sUpstream, sChunks, sFrames, sExc,
                   sTrace, sMapping, scEnabled, scReady, scThreshold,
                   scStore, scOp, scQuery, scFault, scSkipped, scResult,
                   scEscaped, tArg, tContext, tPc, tValid, tFound, qClock,
                   qPerMinute, qPerHour, qNow, qHour, kStart, kSpend, kLock,
                   kPc, kCost, kRead, kWritten, aCase, aPersist, aAudit,
                   aRows, lPc, lCalls, lLocked, lWaiters, lWoken, dPatterns,
                   dEnts, dMode, dEntities, vEnabled, vVariants, vOpenai,
                   vRand, vRoute, oMaxRetries, oRetryDelay, oPc, oAttempt,
                   oCalls, oWaits>>
    /\ UNCHANGED <<maskVars, rateVars, budgetVars, fallbackVars>>

\* await redis.zadd(hour_key, {str(now): now})
QZAddHour(c) ==
    /\ qPc[c] = "zadd_hour"
    /\ qHour' = qHour \cup {qNow[c]}
    /\ qPc' = [qPc EXCEPT ![c] = "expire_minute"]
    /\ UNCHANGED <<cfgMasking, cfgCache, gEnabled, gBlockOnViolation, gRules,
                   cacheStore, pPc, pServed, pOrigMessages, pMessages,
                   pProvider, pModel, pText, pEntities, pViolations, pSid,
                   pCacheHit, pCached, pResp, pCompletion, pExc, pResult,
                   pHttp, pTasks, pTrace, pGuardInText, pSent, pRaised,
                   pScheduled, pLog, pTrackFailed, pPrevId, gTokens, gResult,
                   gEvaluated, wEnabled, wMaxRetries, wSubs, wEvent, wPc,
                   wTasks, wReceived, wPosts, wWaits, sMessages, sProvider,
                   sPc, sSid, sSent, sUpstream, sChunks, sFrames, sExc,
                   sTrace, sMapping, scEnabled, scReady, scThreshold,
                   scStore, scOp, scQuery, scFault, scSkipped, scResult,
                   scEscaped, tArg, tContext, tPc, tValid, tFound, qClock,
                   qPerMinute, qPerHour, qNow, qMinute, kStart, kSpend,
                   kLock, kPc, kCost, kRead, kWritten, aCase, aPersist,
                   aAudit, aRows, lPc, lCalls, lLocked, lWaiters, lWoken,
                   dPatterns, dEnts, dMode, dEntities, vEnabled, vVariants,
                   vOpenai, vRand, vRoute, oMaxRetries, oRetryDelay, oPc,
                   oAttempt, oCalls, oWaits>>
    /\ UNCHANGED <<maskVars, rateVars, budgetVars, fallbackVars>>

\* await redis.expire(minute_key, 60); await redis.expire(hour_key, 3600):
\* the keys outlive the clock of these calls
QExpire(c) ==
    /\ qPc[c] \in {"expire_minute", "expire_hour"}
    /\ qPc' = [qPc EXCEPT ![c] = IF qPc[c] = "expire_minute"
                                 THEN "expire_hour"
                                 ELSE "zrem_minute"]
    /\ UNCHANGED <<cfgMasking, cfgCache, gEnabled, gBlockOnViolation, gRules,
                   cacheStore, pPc, pServed, pOrigMessages, pMessages,
                   pProvider, pModel, pText, pEntities, pViolations, pSid,
                   pCacheHit, pCached, pResp, pCompletion, pExc, pResult,
                   pHttp, pTasks, pTrace, pGuardInText, pSent, pRaised,
                   pScheduled, pLog, pTrackFailed, pPrevId, gTokens, gResult,
                   gEvaluated, wEnabled, wMaxRetries, wSubs, wEvent, wPc,
                   wTasks, wReceived, wPosts, wWaits, sMessages, sProvider,
                   sPc, sSid, sSent, sUpstream, sChunks, sFrames, sExc,
                   sTrace, sMapping, scEnabled, scReady, scThreshold,
                   scStore, scOp, scQuery, scFault, scSkipped, scResult,
                   scEscaped, tArg, tContext, tPc, tValid, tFound, qClock,
                   qPerMinute, qPerHour, qNow, qMinute, qHour, kStart,
                   kSpend, kLock, kPc, kCost, kRead, kWritten, aCase,
                   aPersist, aAudit, aRows, lPc, lCalls, lLocked, lWaiters,
                   lWoken, dPatterns, dEnts, dMode, dEntities, vEnabled,
                   vVariants, vOpenai, vRand, vRoute, oMaxRetries,
                   oRetryDelay, oPc, oAttempt, oCalls, oWaits>>
    /\ UNCHANGED <<maskVars, rateVars, budgetVars, fallbackVars>>

\* await redis.zremrangebyscore(minute_key, 0, now - 60)
QZRemMinute(c) ==
    /\ qPc[c] = "zrem_minute"
    /\ qMinute' = ZRemRangeByScore(qMinute, 0, qNow[c] - MinuteWindow)
    /\ qPc' = [qPc EXCEPT ![c] = "zrem_hour"]
    /\ UNCHANGED <<cfgMasking, cfgCache, gEnabled, gBlockOnViolation, gRules,
                   cacheStore, pPc, pServed, pOrigMessages, pMessages,
                   pProvider, pModel, pText, pEntities, pViolations, pSid,
                   pCacheHit, pCached, pResp, pCompletion, pExc, pResult,
                   pHttp, pTasks, pTrace, pGuardInText, pSent, pRaised,
                   pScheduled, pLog, pTrackFailed, pPrevId, gTokens, gResult,
                   gEvaluated, wEnabled, wMaxRetries, wSubs, wEvent, wPc,
                   wTasks, wReceived, wPosts, wWaits, sMessages, sProvider,
                   sPc, sSid, sSent, sUpstream, sChunks, sFrames, sExc,
                   sTrace, sMapping, scEnabled, scReady, scThreshold,
                   scStore, scOp, scQuery, scFault, scSkipped, scResult,
                   scEscaped, tArg, tContext, tPc, tValid, tFound, qClock,
                   qPerMinute, qPerHour, qNow, qHour, kStart, kSpend, kLock,
                   kPc, kCost, kRead, kWritten, aCase, aPersist, aAudit,
                   aRows, lPc, lCalls, lLocked, lWaiters, lWoken, dPatterns,
                   dEnts, dMode, dEntities, vEnabled, vVariants, vOpenai,
                   vRand, vRoute, oMaxRetries, oRetryDelay, oPc, oAttempt,
                   oCalls, oWaits>>
    /\ UNCHANGED <<maskVars, rateVars, budgetVars, fallbackVars>>

\* await redis.zremrangebyscore(hour_key, 0, now - 3600); return True, None
QZRemHour(c) ==
    /\ qPc[c] = "zrem_hour"
    /\ qHour' = ZRemRangeByScore(qHour, 0, qNow[c] - HourWindow)
    /\ qPc' = [qPc EXCEPT ![c] = "admitted"]
    /\ UNCHANGED <<cfgMasking, cfgCache, gEnabled, gBlockOnViolation, gRules,
                   cacheStore, pPc, pServed, pOrigMessages, pMessages,
                   pProvider, pModel, pText, pEntities, pViolations, pSid,
                   pCacheHit, pCached, pResp, pCompletion, pExc, pResult,
                   pHttp, pTasks, pTrace, pGuardInText, pSent, pRaised,
                   pScheduled, pLog, pTrackFailed, pPrevId, gTokens, gResult,
                   gEvaluated, wEnabled, wMaxRetries, wSubs, wEvent, wPc,
                   wTasks, wReceived, wPosts, wWaits, sMessages, sProvider,
                   sPc, sSid, sSent, sUpstream, sChunks, sFrames, sExc,
                   sTrace, sMapping, scEnabled, scReady, scThreshold,
                   scStore, scOp, scQuery, scFault, scSkipped, scResult,
                   scEscaped, tArg, tContext, tPc, tValid, tFound, qClock,
                   qPerMinute, qPerHour, qNow, qMinute, kStart, kSpend,
                   kLock, kPc, kCost, kRead, kWritten, aCase, aPersist,
                   aAudit, aRows, lPc, lCalls, lLocked, lWaiters, lWoken,
                   dPatterns, dEnts, dMode, dEntities, vEnabled, vVariants,
                   vOpenai, vRand, vRoute, oMaxRetries, oRetryDelay, oPc,
                   oAttempt, oCalls, oWaits>>
    /\ UNCHANGED <<maskVars, rateVars, budgetVars, fallbackVars>>

(***************************************************************************)
(* track_spend, one await at a time (budget_service.py 80-101,             *)
(* budget_repo.py 110-128).                                                *)
(***************************************************************************)
\* track_spend(user_id, cost) is called and opens its session
KStart(c) ==
    /\ kPc[c] = "idle"
    /\ \E cost \in TrackedCosts : kCost' = [kCost EXCEPT ![c] = cost]
    /\ kPc' = [kPc EXCEPT ![c] = "select"]
    /\ UNCHANGED <<cfgMasking, cfgCache, gEnabled, gBlockOnViolation, gRules,
                   cacheStore, pPc, pServed, pOrigMessages, pMessages,
                   pProvider, pModel, pText, pEntities, pViolations, pSid,
                   pCacheHit, pCached, pResp, pCompletion, pExc, pResult,
                   pHttp, pTasks, pTrace, pGuardInText, pSent, pRaised,
                   pScheduled, pLog, pTrackFailed, pPrevId, gTokens, gResult,
                   gEvaluated, wEnabled, wMaxRetries, wSubs, wEvent, wPc,
                   wTasks, wReceived, wPosts, wWaits, sMessages, sProvider,
                   sPc, sSid, sSent, sUpstream, sChunks, sFrames, sExc,
                   sTrace, sMapping, scEnabled, scReady, scThreshold,
                   scStore, scOp, scQuery, scFault, scSkipped, scResult,
                   scEscaped, tArg, tContext, tPc, tValid, tFound, qClock,
                   qPerMinute, qPerHour, qPc, qNow, qMinute, qHour, kStart,
                   kSpend, kLock, kRead, kWritten, aCase, aPersist, aAudit,
                   aRows, lPc, lCalls, lLocked, lWaiters, lWoken, dPatterns,
                   dEnts, dMode, dEntities, vEnabled, vVariants, vOpenai,
                   vRand, vRoute, oMaxRetries, oRetryDelay, oPc, oAttempt,
                   oCalls, oWaits>>
    /\ UNCHANGED <<maskVars, rateVars, budgetVars, fallbackVars>>

\* budget = await self.get_user_budget(user_id): the committed row
KSelect(c) ==
    /\ kPc[c] = "select"
    /\ kRead' = [kRead EXCEPT ![c] = kSpend]
    /\ kPc' = [kPc EXCEPT ![c] = "flush"]
    /\ UNCHANGED <<cfgMasking, cfgCache, gEnabled, gBlockOnViolation, gRules,
                   cacheStore, pPc, pServed, pOrigMessages, pMessages,
                   pProvider, pModel, pText, pEntities, pViolations, pSid,
                   pCacheHit, pCached, pResp, pCompletion, pExc, pResult,
                   pHttp, pTasks, pTrace, pGuardInText, pSent, pRaised,
                   pScheduled, pLog, pTrackFailed, pPrevId, gTokens, gResult,
                   gEvaluated, wEnabled, wMaxRetries, wSubs, wEvent, wPc,
                   wTasks, wReceived, wPosts, wWaits, sMessages, sProvider,
                   sPc, sSid, sSent, sUpstream, sChunks, sFrames, sExc,
                   sTrace, sMapping, scEnabled, scReady, scThreshold,
                   scStore, scOp, scQuery, scFault, scSkipped, scResult,
                   scEscaped, tArg, tContext, tPc, tValid, tFound, qClock,
                   qPerMinute, qPerHour, qPc, qNow, qMinute, qHour, kStart,
                   kSpend, kLock, kCost, kWritten, aCase, aPersist, aAudit,
                   aRows, lPc, lCalls, lLocked, lWaiters, lWoken, dPatterns,
                   dEnts, dMode, dEntities, vEnabled, vVariants, vOpenai,
                   vRand, vRoute, oMaxRetries, oRetryDelay, oPc, oAttempt,
                   oCalls, oWaits>>
    /\ UNCHANGED <<maskVars, rateVars, budgetVars, fallbackVars>>

\* budget.current_spend += amount; await self.db.flush(): the UPDATE waits
\* for the row lock and writes the value computed from what was loaded
KFlush(c) ==
    /\ kPc[c] = "flush"
    /\ kLock = NoLock
    /\ kLock' = c
    /\ kWritten' = [kWritten EXCEPT ![c] = SpendAfter(kRead[c], kCost[c])]
    /\ kPc' = [kPc EXCEPT ![c] = "commit"]
    /\ UNCHANGED <<cfgMasking, cfgCache, gEnabled, gBlockOnViolation, gRules,
                   cacheStore, pPc, pServed, pOrigMessages, pMessages,
                   pProvider, pModel, pText, pEntities, pViolations, pSid,
                   pCacheHit, pCached, pResp, pCompletion, pExc, pResult,
                   pHttp, pTasks, pTrace, pGuardInText, pSent, pRaised,
                   pScheduled, pLog, pTrackFailed, pPrevId, gTokens, gResult,
                   gEvaluated, wEnabled, wMaxRetries, wSubs, wEvent, wPc,
                   wTasks, wReceived, wPosts, wWaits, sMessages, sProvider,
                   sPc, sSid, sSent, sUpstream, sChunks, sFrames, sExc,
                   sTrace, sMapping, scEnabled, scReady, scThreshold,
                   scStore, scOp, scQuery, scFault, scSkipped, scResult,
                   scEscaped, tArg, tContext, tPc, tValid, tFound, qClock,
                   qPerMinute, qPerHour, qPc, qNow, qMinute, qHour, kStart,
                   kSpend, kCost, kRead, aCase, aPersist, aAudit, aRows, lPc,
                   lCalls, lLocked, lWaiters, lWoken, dPatterns, dEnts,
                   dMode, dEntities, vEnabled, vVariants, vOpenai, vRand,
                   vRoute, oMaxRetries, oRetryDelay, oPc, oAttempt, oCalls,
                   oWaits>>
    /\ UNCHANGED <<maskVars, rateVars, budgetVars, fallbackVars>>

\* await db.commit()
KCommit(c) ==
    /\ kPc[c] = "commit"
    /\ kSpend' = kWritten[c]
    /\ kLock' = NoLock
    /\ kPc' = [kPc EXCEPT ![c] = "committed"]
    /\ UNCHANGED <<cfgMasking, cfgCache, gEnabled, gBlockOnViolation, gRules,
                   cacheStore, pPc, pServed, pOrigMessages, pMessages,
                   pProvider, pModel, pText, pEntities, pViolations, pSid,
                   pCacheHit, pCached, pResp, pCompletion, pExc, pResult,
                   pHttp, pTasks, pTrace, pGuardInText, pSent, pRaised,
                   pScheduled, pLog, pTrackFailed, pPrevId, gTokens, gResult,
                   gEvaluated, wEnabled, wMaxRetries, wSubs, wEvent, wPc,
                   wTasks, wReceived, wPosts, wWaits, sMessages, sProvider,
                   sPc, sSid, sSent, sUpstream, sChunks, sFrames, sExc,
                   sTrace, sMapping, scEnabled, scReady, scThreshold,
                   scStore, scOp, scQuery, scFault, scSkipped, scResult,
                   scEscaped, tArg, tContext, tPc, tValid, tFound, qClock,
                   qPerMinute, qPerHour, qPc, qNow, qMinute, qHour, kStart,
                   kCost, kRead, kWritten, aCase, aPersist, aAudit, aRows,
                   lPc, lCalls, lLocked, lWaiters, lWoken, dPatterns, dEnts,
                   dMode, dEntities, vEnabled, vVariants, vOpenai, vRand,
                   vRoute, oMaxRetries, oRetryDelay, oPc, oAttempt, oCalls,
                   oWaits>>
    /\ UNCHANGED <<maskVars, rateVars, budgetVars, fallbackVars>>

\* an await raises: logger.error, await db.rollback()
KFail(c) ==
    /\ kPc[c] \in {"select", "flush", "commit"}
    /\ kLock' = IF kLock = c THEN NoLock ELSE kLock
    /\ kPc' = [kPc EXCEPT ![c] = "failed"]
    /\ UNCHANGED <<cfgMasking, cfgCache, gEnabled, gBlockOnViolation, gRules,
                   cacheStore, pPc, pServed, pOrigMessages, pMessages,
                   pProvider, pModel, pText, pEntities, pViolations, pSid,
                   pCacheHit, pCached, pResp, pCompletion, pExc, pResult,
                   pHttp, pTasks, pTrace, pGuardInText, pSent, pRaised,
                   pScheduled, pLog, pTrackFailed, pPrevId, gTokens, gResult,
                   gEvaluated, wEnabled, wMaxRetries, wSubs, wEvent, wPc,
                   wTasks, wReceived, wPosts, wWaits, sMessages, sProvider,
                   sPc, sSid, sSent, sUpstream, sChunks, sFrames, sExc,
                   sTrace, sMapping, scEnabled, scReady, scThreshold,
                   scStore, scOp, scQuery, scFault, scSkipped, scResult,
                   scEscaped, tArg, tContext, tPc, tValid, tFound, qClock,
                   qPerMinute, qPerHour, qPc, qNow, qMinute, qHour, kStart,
                   kSpend, kCost, kRead, kWritten, aCase, aPersist, aAudit,
                   aRows, lPc, lCalls, lLocked, lWaiters, lWoken, dPatterns,
                   dEnts, dMode, dEntities, vEnabled, vVariants, vOpenai,
                   vRand, vRoute, oMaxRetries, oRetryDelay, oPc, oAttempt,
                   oCalls, oWaits>>
    /\ UNCHANGED <<maskVars, rateVars, budgetVars, fallbackVars>>

(***************************************************************************)
(* process_request steps 4, 10, 14 and the except branch, and the tasks    *)
(* _log_guardrail_violations, log_and_get_id / log_error_and_update        *)
(* (gateway_service.py 93-108, 183-205, 231-262, 297-343, 359-434).        *)
(***************************************************************************)
\* the guardrails report a violation: the persist task is created with
\* request_id=None
AViolation(c) ==
    /\ aCase[c] = "none"
    /\ \E case \in ViolationCases :
         /\ aCase' = [aCase EXCEPT ![c] = case]
         /\ aPersist' = [aPersist EXCEPT ![c] = 1]
    /\ UNCHANGED <<cfgMasking, cfgCache, gEnabled, gBlockOnViolation, gRules,
                   cacheStore, pPc, pServed, pOrigMessages, pMessages,
                   pProvider, pModel, pText, pEntities, pViolations, pSid,
                   pCacheHit, pCached, pResp, pCompletion, pExc, pResult,
                   pHttp, pTasks, pTrace, pGuardInText, pSent, pRaised,
                   pScheduled, pLog, pTrackFailed, pPrevId, gTokens, gResult,
                   gEvaluated, wEnabled, wMaxRetries, wSubs, wEvent, wPc,
                   wTasks, wReceived, wPosts, wWaits, sMessages, sProvider,
                   sPc, sSid, sSent, sUpstream, sChunks, sFrames, sExc,
                   sTrace, sMapping, scEnabled, scReady, scThreshold,
                   scStore, scOp, scQuery, scFault, scSkipped, scResult,
                   scEscaped, tArg, tContext, tPc, tValid, tFound, qClock,
                   qPerMinute, qPerHour, qPc, qNow, qMinute, qHour, kStart,
                   kSpend, kLock, kPc, kCost, kRead, kWritten, aAudit, aRows,
                   lPc, lCalls, lLocked, lWaiters, lWoken, dPatterns, dEnts,
                   dMode, dEntities, vEnabled, vVariants, vOpenai, vRand,
                   vRoute, oMaxRetries, oRetryDelay, oPc, oAttempt, oCalls,
                   oWaits>>
    /\ UNCHANGED <<maskVars, rateVars, budgetVars, fallbackVars>>

\* step 14 or the except branch: the audit task is created; a blocked
\* request has created its second persist task just before
ACreateAudit(c) ==
    /\ aCase[c] # "none"
    /\ aAudit[c] = "none"
    /\ aAudit' = [aAudit EXCEPT ![c] = "created"]
    /\ aPersist' = [aPersist EXCEPT ![c] = @ + PersistTasks(aCase[c]) - 1]
    /\ UNCHANGED <<cfgMasking, cfgCache, gEnabled, gBlockOnViolation, gRules,
                   cacheStore, pPc, pServed, pOrigMessages, pMessages,
                   pProvider, pModel, pText, pEntities, pViolations, pSid,
                   pCacheHit, pCached, pResp, pCompletion, pExc, pResult,
                   pHttp, pTasks, pTrace, pGuardInText, pSent, pRaised,
                   pScheduled, pLog, pTrackFailed, pPrevId, gTokens, gResult,
                   gEvaluated, wEnabled, wMaxRetries, wSubs, wEvent, wPc,
                   wTasks, wReceived, wPosts, wWaits, sMessages, sProvider,
                   sPc, sSid, sSent, sUpstream, sChunks, sFrames, sExc,
                   sTrace, sMapping, scEnabled, scReady, scThreshold,
                   scStore, scOp, scQuery, scFault, scSkipped, scResult,
                   scEscaped, tArg, tContext, tPc, tValid, tFound, qClock,
                   qPerMinute, qPerHour, qPc, qNow, qMinute, qHour, kStart,
                   kSpend, kLock, kPc, kCost, kRead, kWritten, aCase, aRows,
                   lPc, lCalls, lLocked, lWaiters, lWoken, dPatterns, dEnts,
                   dMode, dEntities, vEnabled, vVariants, vOpenai, vRand,
                   vRoute, oMaxRetries, oRetryDelay, oPc, oAttempt, oCalls,
                   oWaits>>
    /\ UNCHANGED <<maskVars, rateVars, budgetVars, fallbackVars>>

\* a _log_guardrail_violations task runs: guardrail_repo.create, commit
APersist(c) ==
    /\ aPersist[c] > 0
    /\ aRows' = aRows \cup {[owner |-> c,
                             n |-> Cardinality({row \in aRows : row.owner = c}) + 1,
                             request_id |-> NullId]}
    /\ aPersist' = [aPersist EXCEPT ![c] = @ - 1]
    /\ UNCHANGED <<cfgMasking, cfgCache, gEnabled, gBlockOnViolation, gRules,
                   cacheStore, pPc, pServed, pOrigMessages, pMessages,
                   pProvider, pModel, pText, pEntities, pViolations, pSid,
                   pCacheHit, pCached, pResp, pCompletion, pExc, pResult,
                   pHttp, pTasks, pTrace, pGuardInText, pSent, pRaised,
                   pScheduled, pLog, pTrackFailed, pPrevId, gTokens, gResult,
                   gEvaluated, wEnabled, wMaxRetries, wSubs, wEvent, wPc,
                   wTasks, wReceived, wPosts, wWaits, sMessages, sProvider,
                   sPc, sSid, sSent, sUpstream, sChunks, sFrames, sExc,
                   sTrace, sMapping, scEnabled, scReady, scThreshold,
                   scStore, scOp, scQuery, scFault, scSkipped, scResult,
                   scEscaped, tArg, tContext, tPc, tValid, tFound, qClock,
                   qPerMinute, qPerHour, qPc, qNow, qMinute, qHour, kStart,
                   kSpend, kLock, kPc, kCost, kRead, kWritten, aCase, aAudit,
                   lPc, lCalls, lLocked, lWaiters, lWoken, dPatterns, dEnts,
                   dMode, dEntities, vEnabled, vVariants, vOpenai, vRand,
                   vRoute, oMaxRetries, oRetryDelay, oPc, oAttempt, oCalls,
                   oWaits>>
    /\ UNCHANGED <<maskVars, rateVars, budgetVars, fallbackVars>>

\* the audit task: request_log = await audit_service.log_request(...)
ALogRequest(c) ==
    /\ aAudit[c] = "created"
    /\ aAudit' = [aAudit EXCEPT ![c] = "logged"]
    /\ UNCHANGED <<cfgMasking, cfgCache, gEnabled, gBlockOnViolation, gRules,
                   cacheStore, pPc, pServed, pOrigMessages, pMessages,
                   pProvider, pModel, pText, pEntities, pViolations, pSid,
                   pCacheHit, pCached, pResp, pCompletion, pExc, pResult,
                   pHttp, pTasks, pTrace, pGuardInText, pSent, pRaised,
                   pScheduled, pLog, pTrackFailed, pPrevId, gTokens, gResult,
                   gEvaluated, wEnabled, wMaxRetries, wSubs, wEvent, wPc,
                   wTasks, wReceived, wPosts, wWaits, sMessages, sProvider,
                   sPc, sSid, sSent, sUpstream, sChunks, sFrames, sExc,
                   sTrace, sMapping, scEnabled, scReady, scThreshold,
                   scStore, scOp, scQuery, scFault, scSkipped, scResult,
                   scEscaped, tArg, tContext, tPc, tValid, tFound, qClock,
                   qPerMinute, qPerHour, qPc, qNow, qMinute, qHour, kStart,
                   kSpend, kLock, kPc, kCost, kRead, kWritten, aCase,
                   aPersist, aRows, lPc, lCalls, lLocked, lWaiters, lWoken,
                   dPatterns, dEnts, dMode, dEntities, vEnabled, vVariants,
                   vOpenai, vRand, vRoute, oMaxRetries, oRetryDelay, oPc,
                   oAttempt, oCalls, oWaits>>
    /\ UNCHANGED <<maskVars, rateVars, budgetVars, fallbackVars>>

\* the audit task: the back-fill with request_log.id, when it is due
ABackfill(c) ==
    /\ aAudit[c] = "logged"
    /\ aRows' = IF BackfillNeeded(aCase[c]) THEN Backfill(aRows, c) ELSE aRows
    /\ aAudit' = [aAudit EXCEPT ![c] = "done"]
    /\ UNCHANGED <<cfgMasking, cfgCache, gEnabled, gBlockOnViolation, gRules,
                   cacheStore, pPc, pServed, pOrigMessages, pMessages,
                   pProvider, pModel, pText, pEntities, pViolations, pSid,
                   pCacheHit, pCached, pResp, pCompletion, pExc, pResult,
                   pHttp, pTasks, pTrace, pGuardInText, pSent, pRaised,
                   pScheduled, pLog, pTrackFailed, pPrevId, gTokens, gResult,
                   gEvaluated, wEnabled, wMaxRetries, wSubs, wEvent, wPc,
                   wTasks, wReceived, wPosts, wWaits, sMessages, sProvider,
                   sPc, sSid, sSent, sUpstream, sChunks, sFrames, sExc,
                   sTrace, sMapping, scEnabled, scReady, scThreshold,
                   scStore, scOp, scQuery, scFault, scSkipped, scResult,
                   scEscaped, tArg, tContext, tPc, tValid, tFound, qClock,
                   qPerMinute, qPerHour, qPc, qNow, qMinute, qHour, kStart,
                   kSpend, kLock, kPc, kCost, kRead, kWritten, aCase,
                   aPersist, lPc, lCalls, lLocked, lWaiters, lWoken,
                   dPatterns, dEnts, dMode, dEntities, vEnabled, vVariants,
                   vOpenai, vRand, vRoute, oMaxRetries, oRetryDelay, oPc,
                   oAttempt, oCalls, oWaits>>
    /\ UNCHANGED <<maskVars, rateVars, budgetVars, fallbackVars>>

(***************************************************************************)
(* OpenAIProvider.complete (openai_provider.py 45-90).                     *)
(***************************************************************************)
\* complete(messages, model, ...) is called: the loop is entered, or not
OComplete ==
    /\ oPc = "call"
    /\ oPc' = CompleteEntry(oMaxRetries)
    /\ UNCHANGED <<cfgMasking, cfgCache, gEnabled, gBlockOnViolation, gRules,
                   cacheStore, pPc, pServed, pOrigMessages, pMessages,
                   pProvider, pModel, pText, pEntities, pViolations, pSid,
                   pCacheHit, pCached, pResp, pCompletion, pExc, pResult,
                   pHttp, pTasks, pTrace, pGuardInText, pSent, pRaised,
                   pScheduled, pLog, pTrackFailed, pPrevId, gTokens, gResult,
                   gEvaluated, wEnabled, wMaxRetries, wSubs, wEvent, wPc,
                   wTasks, wReceived, wPosts, wWaits, sMessages, sProvider,
                   sPc, sSid, sSent, sUpstream, sChunks, sFrames, sExc,
                   sTrace, sMapping, scEnabled, scReady, scThreshold,
                   scStore, scOp, scQuery, scFault, scSkipped, scResult,
                   scEscaped, tArg, tContext, tPc, tValid, tFound, qClock,
                   qPerMinute, qPerHour, qPc, qNow, qMinute, qHour, kStart,
                   kSpend, kLock, kPc, kCost, kRead, kWritten, aCase,
                   aPersist, aAudit, aRows, lPc, lCalls, lLocked, lWaiters,
                   lWoken, dPatterns, dEnts, dMode, dEntities, vEnabled,
                   vVariants, vOpenai, vRand, vRoute, oMaxRetries,
                   oRetryDelay, oAttempt, oCalls, oWaits>>
    /\ UNCHANGED <<maskVars, rateVars, budgetVars, fallbackVars>>

\* one pass of the loop: client.chat.completions.create and its handlers
OAttempt ==
    \E outcome \in UpstreamOutcomes :
      /\ oPc = "attempt"
      /\ oCalls' = Append(oCalls, outcome)
      /\ oPc' = AfterUpstream(outcome, oAttempt, oMaxRetries)
      /\ oWaits' = IF AfterUpstream(outcome, oAttempt, oMaxRetries) = "sleep"
                   THEN Append(oWaits, Backoff(oRetryDelay, oAttempt))
                   ELSE oWaits
      /\ UNCHANGED <<cfgMasking, cfgCache, gEnabled, gBlockOnViolation,
                     gRules, cacheStore, pPc, pServed, pOrigMessages,
                     pMessages, pProvider, pModel, pText, pEntities,
                     pViolations, pSid, pCacheHit, pCached, pResp,
                     pCompletion, pExc, pResult, pHttp, pTasks, pTrace,
                     pGuardInText, pSent, pRaised, pScheduled, pLog,
                     pTrackFailed, pPrevId, gTokens, gResult, gEvaluated,
                     wEnabled, wMaxRetries, wSubs, wEvent, wPc, wTasks,
                     wReceived, wPosts, wWaits, sMessages, sProvider, sPc,
                     sSid, sSent, sUpstream, sChunks, sFrames, sExc, sTrace,
                     sMapping, scEnabled, scReady, scThreshold, scStore,
                     scOp, scQuery, scFault, scSkipped, scResult, scEscaped,
                     tArg, tContext, tPc, tValid, tFound, qClock, qPerMinute,
                     qPerHour, qPc, qNow, qMinute, qHour, kStart, kSpend,
                     kLock, kPc, kCost, kRead, kWritten, aCase, aPersist,
                     aAudit, aRows, lPc, lCalls, lLocked, lWaiters, lWoken,
                     dPatterns, dEnts, dMode, dEntities, vEnabled, vVariants,
                     vOpenai, vRand, vRoute, oMaxRetries, oRetryDelay,
                     oAttempt>>
      /\ UNCHANGED <<maskVars, rateVars, budgetVars, fallbackVars>>

\* asyncio.sleep(retry_delay * 2 ** attempt) is over: the next pass
OSleepEnds ==
    /\ oPc = "sleep"
    /\ oAttempt' = oAttempt + 1
    /\ oPc' = "attempt"
    /\ UNCHANGED <<cfgMasking, cfgCache, gEnabled, gBlockOnViolation, gRules,
                   cacheStore, pPc, pServed, pOrigMessages, pMessages,
                   pProvider, pModel, pText, pEntities, pViolations, pSid,
                   pCacheHit, pCached, pResp, pCompletion, pExc, pResult,
                   pHttp, pTasks, pTrace, pGuardInText, pSent, pRaised,
                   pScheduled, pLog, pTrackFailed, pPrevId, gTokens, gResult,
                   gEvaluated, wEnabled, wMaxRetries, wSubs, wEvent, wPc,
                   wTasks, wReceived, wPosts, wWaits, sMessages, sProvider,
                   sPc, sSid, sSent, sUpstream, sChunks, sFrames, sExc,
                   sTrace, sMapping, scEnabled, scReady, scThreshold,
                   scStore, scOp, scQuery, scFault, scSkipped, scResult,
                   scEscaped, tArg, tContext, tPc, tValid, tFound, qClock,
                   qPerMinute, qPerHour, qPc, qNow, qMinute, qHour, kStart,
                   kSpend, kLock, kPc, kCost, kRead, kWritten, aCase,
                   aPersist, aAudit, aRows, lPc, lCalls, lLocked, lWaiters,
                   lWoken, dPatterns, dEnts, dMode, dEntities, vEnabled,
                   vVariants, vOpenai, vRand, vRoute, oMaxRetries,
                   oRetryDelay, oCalls, oWaits>>
    /\ UNCHANGED <<maskVars, rateVars, budgetVars, fallbackVars>>

(***************************************************************************)
(* mask and unmask around PIIMasker._lock (masker.py 52-80, 96-121).       *)
(***************************************************************************)
\* coroutine c calls mask or unmask and reaches "async with self._lock":
\* it takes the free lock, or queues
LEnter(c) ==
    \E op \in MaskerOps :
      /\ lPc[c] = "idle"
      /\ lCalls[c] < MaxLockCalls
      /\ lCalls' = [lCalls EXCEPT ![c] = @ + 1]
      /\ IF LockFree(lLocked, lWaiters)
         THEN /\ lLocked' = TRUE
              /\ lPc' = [lPc EXCEPT ![c] = FirstAwait(op)]
              /\ lWaiters' = lWaiters
         ELSE /\ lLocked' = lLocked
              /\ lPc' = [lPc EXCEPT ![c] = "wait_" \o op]
              /\ lWaiters' = Append(lWaiters, c)
      /\ UNCHANGED <<cfgMasking, cfgCache, gEnabled, gBlockOnViolation,
                     gRules, cacheStore, pPc, pServed, pOrigMessages,
                     pMessages, pProvider, pModel, pText, pEntities,
                     pViolations, pSid, pCacheHit, pCached, pResp,
                     pCompletion, pExc, pResult, pHttp, pTasks, pTrace,
                     pGuardInText, pSent, pRaised, pScheduled, pLog,
                     pTrackFailed, pPrevId, gTokens, gResult, gEvaluated,
                     wEnabled, wMaxRetries, wSubs, wEvent, wPc, wTasks,
                     wReceived, wPosts, wWaits, sMessages, sProvider, sPc,
                     sSid, sSent, sUpstream, sChunks, sFrames, sExc, sTrace,
                     sMapping, scEnabled, scReady, scThreshold, scStore,
                     scOp, scQuery, scFault, scSkipped, scResult, scEscaped,
                     tArg, tContext, tPc, tValid, tFound, qClock, qPerMinute,
                     qPerHour, qPc, qNow, qMinute, qHour, kStart, kSpend,
                     kLock, kPc, kCost, kRead, kWritten, aCase, aPersist,
                     aAudit, aRows, lWoken, dPatterns, dEnts, dMode,
                     dEntities, vEnabled, vVariants, vOpenai, vRand, vRoute,
                     oMaxRetries, oRetryDelay, oPc, oAttempt, oCalls,
                     oWaits>>
      /\ UNCHANGED <<maskVars, rateVars, budgetVars, fallbackVars>>

\* the woken waiter runs: it leaves the queue and holds the lock
LAcquired(c) ==
    /\ lPc[c] \in {"wait_mask", "wait_unmask"}
    /\ lWoken = c
    /\ lWaiters' = Tail(lWaiters)
    /\ lWoken' = NoCoro
    /\ lLocked' = TRUE
    /\ lPc' = [lPc EXCEPT ![c] = FirstAwait(IF lPc[c] = "wait_mask" THEN "mask" ELSE "unmask")]
    /\ UNCHANGED <<cfgMasking, cfgCache, gEnabled, gBlockOnViolation, gRules,
                   cacheStore, pPc, pServed, pOrigMessages, pMessages,
                   pProvider, pModel, pText, pEntities, pViolations, pSid,
                   pCacheHit, pCached, pResp, pCompletion, pExc, pResult,
                   pHttp, pTasks, pTrace, pGuardInText, pSent, pRaised,
                   pScheduled, pLog, pTrackFailed, pPrevId, gTokens, gResult,
                   gEvaluated, wEnabled, wMaxRetries, wSubs, wEvent, wPc,
                   wTasks, wReceived, wPosts, wWaits, sMessages, sProvider,
                   sPc, sSid, sSent, sUpstream, sChunks, sFrames, sExc,
                   sTrace, sMapping, scEnabled, scReady, scThreshold,
                   scStore, scOp, scQuery, scFault, scSkipped, scResult,
                   scEscaped, tArg, tContext, tPc, tValid, tFound, qClock,
                   qPerMinute, qPerHour, qPc, qNow, qMinute, qHour, kStart,
                   kSpend, kLock, kPc, kCost, kRead, kWritten, aCase,
                   aPersist, aAudit, aRows, lCalls, dPatterns, dEnts, dMode,
                   dEntities, vEnabled, vVariants, vOpenai, vRand, vRoute,
                   oMaxRetries, oRetryDelay, oPc, oAttempt, oCalls, oWaits>>
    /\ UNCHANGED <<maskVars, rateVars, budgetVars, fallbackVars>>

\* the Redis call of c ends: the next await, or the end of the block, which
\* releases the lock and wakes the first waiter
LRedis(c) ==
    \E result \in RedisResults :
      /\ lPc[c] \in InLock
      /\ lPc' = [lPc EXCEPT ![c] = AfterRedis(lPc[c], result)]
      /\ IF AfterRedis(lPc[c], result) = "idle"
         THEN /\ lLocked' = FALSE
              /\ lWoken' = WakeUpFirst(lWaiters)
         ELSE /\ lLocked' = lLocked
              /\ lWoken' = lWoken
      /\ UNCHANGED <<cfgMasking, cfgCache, gEnabled, gBlockOnViolation,
                     gRules, cacheStore, pPc, pServed, pOrigMessages,
                     pMessages, pProvider, pModel, pText, pEntities,
                     pViolations, pSid, pCacheHit, pCached, pResp,
                     pCompletion, pExc, pResult, pHttp, pTasks, pTrace,
                     pGuardInText, pSent, pRaised, pScheduled, pLog,
                     pTrackFailed, pPrevId, gTokens, gResult, gEvaluated,
                     wEnabled, wMaxRetries, wSubs, wEvent, wPc, wTasks,
                     wReceived, wPosts, wWaits, sMessages, sProvider, sPc,
                     sSid, sSent, sUpstream, sChunks, sFrames, sExc, sTrace,
                     sMapping, scEnabled, scReady, scThreshold, scStore,
                     scOp, scQuery, scFault, scSkipped, scResult, scEscaped,
                     tArg, tContext, tPc, tValid, tFound, qClock, qPerMinute,
                     qPerHour, qPc, qNow, qMinute, qHour, kStart, kSpend,
                     kLock, kPc, kCost, kRead, kWritten, aCase, aPersist,
                     aAudit, aRows, lCalls, lWaiters, dPatterns, dEnts,
                     dMode, dEntities, vEnabled, vVariants, vOpenai, vRand,
                     vRoute, oMaxRetries, oRetryDelay, oPc, oAttempt, oCalls,
                     oWaits>>
      /\ UNCHANGED <<maskVars, rateVars, budgetVars, fallbackVars>>

(***************************************************************************)
(* PIIDetector.detect (detector.py 16-123).                                *)
(***************************************************************************)
\* detect(text, "fast"): the pattern entities as found
DDetectFast ==
    /\ dMode = "-"
    /\ dMode' = "fast"
    /\ dEntities' = dPatterns
    /\ UNCHANGED <<cfgMasking, cfgCache, gEnabled, gBlockOnViolation, gRules,
                   cacheStore, pPc, pServed, pOrigMessages, pMessages,
                   pProvider, pModel, pText, pEntities, pViolations, pSid,
                   pCacheHit, pCached, pResp, pCompletion, pExc, pResult,
                   pHttp, pTasks, pTrace, pGuardInText, pSent, pRaised,
                   pScheduled, pLog, pTrackFailed, pPrevId, gTokens, gResult,
                   gEvaluated, wEnabled, wMaxRetries, wSubs, wEvent, wPc,
                   wTasks, wReceived, wPosts, wWaits, sMessages, sProvider,
                   sPc, sSid, sSent, sUpstream, sChunks, sFrames, sExc,
                   sTrace, sMapping, scEnabled, scReady, scThreshold,
                   scStore, scOp, scQuery, scFault, scSkipped, scResult,
                   scEscaped, tArg, tContext, tPc, tValid, tFound, qClock,
                   qPerMinute, qPerHour, qPc, qNow, qMinute, qHour, kStart,
                   kSpend, kLock, kPc, kCost, kRead, kWritten, aCase,
                   aPersist, aAudit, aRows, lPc, lCalls, lLocked, lWaiters,
                   lWoken, dPatterns, dEnts, vEnabled, vVariants, vOpenai,
                   vRand, vRoute, oMaxRetries, oRetryDelay, oPc, oAttempt,
                   oCalls, oWaits>>
    /\ UNCHANGED <<maskVars, rateVars, budgetVars, fallbackVars>>

\* detect(text, "detailed")
DDetectDetailed ==
    /\ dMode = "-"
    /\ dMode' = "detailed"
    /\ dEntities' = DetectDetailed(dPatterns, dEnts)
    /\ UNCHANGED <<cfgMasking, cfgCache, gEnabled, gBlockOnViolation, gRules,
                   cacheStore, pPc, pServed, pOrigMessages, pMessages,
                   pProvider, pModel, pText, pEntities, pViolations, pSid,
                   pCacheHit, pCached, pResp, pCompletion, pExc, pResult,
                   pHttp, pTasks, pTrace, pGuardInText, pSent, pRaised,
                   pScheduled, pLog, pTrackFailed, pPrevId, gTokens, gResult,
                   gEvaluated, wEnabled, wMaxRetries, wSubs, wEvent, wPc,
                   wTasks, wReceived, wPosts, wWaits, sMessages, sProvider,
                   sPc, sSid, sSent, sUpstream, sChunks, sFrames, sExc,
                   sTrace, sMapping, scEnabled, scReady, scThreshold,
                   scStore, scOp, scQuery, scFault, scSkipped, scResult,
                   scEscaped, tArg, tContext, tPc, tValid, tFound, qClock,
                   qPerMinute, qPerHour, qPc, qNow, qMinute, qHour, kStart,
                   kSpend, kLock, kPc, kCost, kRead, kWritten, aCase,
                   aPersist, aAudit, aRows, lPc, lCalls, lLocked, lWaiters,
                   lWoken, dPatterns, dEnts, vEnabled, vVariants, vOpenai,
                   vRand, vRoute, oMaxRetries, oRetryDelay, oPc, oAttempt,
                   oCalls, oWaits>>
    /\ UNCHANGED <<maskVars, rateVars, budgetVars, fallbackVars>>

(***************************************************************************)
(* ABRouter.route_request (router.py 15-45).                               *)
(***************************************************************************)
VRouteRequest ==
    \E rand \in Rands :
      /\ vRand = -1
      /\ vRand' = rand
      /\ vRoute' = RouteRequestAB(vEnabled, vVariants, vOpenai, rand)
      /\ UNCHANGED <<cfgMasking, cfgCache, gEnabled, gBlockOnViolation,
                     gRules, cacheStore, pPc, pServed, pOrigMessages,
                     pMessages, pProvider, pModel, pText, pEntities,
                     pViolations, pSid, pCacheHit, pCached, pResp,
                     pCompletion, pExc, pResult, pHttp, pTasks, pTrace,
                     pGuardInText, pSent, pRaised, pScheduled, pLog,
                     pTrackFailed, pPrevId, gTokens, gResult, gEvaluated,
                     wEnabled, wMaxRetries, wSubs, wEvent, wPc, wTasks,
                     wReceived, wPosts, wWaits, sMessages, sProvider, sPc,
                     sSid, sSent, sUpstream, sChunks, sFrames, sExc, sTrace,
                     sMapping, scEnabled, scReady, scThreshold, scStore,
                     scOp, scQuery, scFault, scSkipped, scResult, scEscaped,
                     tArg, tContext, tPc, tValid, tFound, qClock, qPerMinute,
                     qPerHour, qPc, qNow, qMinute, qHour, kStart, kSpend,
                     kLock, kPc, kCost, kRead, kWritten, aCase, aPersist,
                     aAudit, aRows, lPc, lCalls, lLocked, lWaiters, lWoken,
                     dPatterns, dEnts, dMode, dEntities, vEnabled, vVariants,
                     vOpenai, oMaxRetries, oRetryDelay, oPc, oAttempt,
                     oCalls, oWaits>>
      /\ UNCHANGED <<maskVars, rateVars, budgetVars, fallbackVars>>
(***************************************************************************)
(* Specifications: one per subsystem; the variables of the other           *)
(* subsystems stay at their initial values.                                *)
(***************************************************************************)
MaskInit == MaskInputs /\ RateIdle /\ BudgetIdle /\ FallbackIdle /\ PipeIdle

MaskNext == Mask \/ ExpireSession \/ Unmask

SpecMask == MaskInit /\ [][MaskNext]_vars

RateInit == RateInputs /\ MaskIdle /\ BudgetIdle /\ FallbackIdle /\ PipeIdle

RateNext == Tick \/ CheckRateLimit

SpecRate == RateInit /\ [][RateNext]_vars

BudgetInit == BudgetInputs /\ MaskIdle /\ RateIdle /\ FallbackIdle /\ PipeIdle

BudgetNext == NextDay \/ CheckBudget \/ TrackSpend

SpecBudget == BudgetInit /\ [][BudgetNext]_vars

FallbackInit == FallbackInputs /\ MaskIdle /\ RateIdle /\ BudgetIdle /\ PipeIdle

FallbackNext == FbCall \/ FbDirect \/ FbAttempt \/ FbAllFailed \/ FbWait

SpecFallback == FallbackInit /\ [][FallbackNext]_vars


PipeInit ==
    /\ PipeInputs
    /\ MaskIdle
    /\ RateIdle
    /\ bEnabled \in BOOLEAN
    /\ bToday = 25
    /\ bDefaultLimit = 2
    /\ bDefaultPeriod = "monthly"
    /\ bBudget = NoBudget
    /\ bOp = "none"
    /\ bOutcome = "none"
    /\ bExc = NoExc
    /\ bPre = NoBudget
    /\ bCost = 0
    /\ fbEnabled = TRUE
    /\ fbOrder = <<"openai", "gemini">>
    /\ FallbackCallIdle

PipeNext ==
    \/ PStart \/ PRateLimit \/ PDetectIn \/ PGuardIn \/ PMask \/ PCacheGet
    \/ PBudgetCheck \/ PRoute \/ FbAttempt \/ FbAllFailed \/ FbWait
    \/ PProviderReturn \/ PCacheSet \/ PDetectOut \/ PUnmask \/ PTrack
    \/ PCreateTasks \/ PReturn \/ PExcept \/ PEndpoint \/ RunTask

SpecPipe == PipeInit /\ [][PipeNext]_vars

GuardInit == GuardInputs /\ MaskIdle /\ RateIdle /\ BudgetIdle /\ FallbackIdle

GuardNext == GuardCheck

SpecGuard == GuardInit /\ [][GuardNext]_vars

WebhookInit ==
    /\ WebhookInputs /\ PipeCoreIdle /\ GuardCallIdle /\ StreamIdle /\ SemCacheIdle /\ LaterIdle
    /\ MaskIdle /\ RateIdle /\ BudgetIdle /\ FallbackIdle

WebhookNext == TriggerEvent \/ PostAttempt \/ RetrySleepEnds

SpecWebhook == WebhookInit /\ [][WebhookNext]_vars

StreamInit ==
    /\ StreamInputs
    /\ cfgMasking \in BOOLEAN
    /\ cfgCache = TRUE
    /\ gEnabled = TRUE
    /\ gBlockOnViolation = TRUE
    /\ gRules = StartupRules
    /\ PipeRequestIdle /\ GuardCallIdle /\ WebhookIdle /\ SemCacheIdle /\ LaterIdle
    /\ MaskIdle /\ RateIdle /\ BudgetIdle /\ FallbackIdle

StreamNext ==
    \/ SDetect \/ SMask \/ SOpen \/ SChunk \/ SUpstreamEnds \/ SUpstreamFails
    \/ SExcept

SpecStream == StreamInit /\ [][StreamNext]_vars

SemCacheInit ==
    /\ SemCacheInputs /\ LaterIdle /\ PipeCoreIdle /\ GuardCallIdle /\ WebhookIdle /\ StreamIdle
    /\ MaskIdle /\ RateIdle /\ BudgetIdle /\ FallbackIdle

SemCacheNext == CacheSet \/ CacheGet \/ CacheExpire

SpecCache == SemCacheInit /\ [][SemCacheNext]_vars

(***************************************************************************)
(* validate_tckn and the TCKN pattern applied to one string.               *)
(***************************************************************************)
InitBase ==
    /\ PipeCoreIdle /\ GuardCallIdle /\ WebhookIdle /\ StreamIdle /\ SemCacheIdle
    /\ MaskIdle /\ RateIdle /\ BudgetIdle /\ FallbackIdle

TcknInit == TcknInputs /\ OpenAIIdle /\ LockIdle /\ DetailIdle /\ RouteIdle /\ RaceIdle /\ SpendIdle /\ AttrIdle /\ InitBase

TcknNext == TcknValidate \/ TcknDetect

SpecTckn == TcknInit /\ [][TcknNext]_vars

(***************************************************************************)
(* Concurrent check_rate_limit calls of one user.                          *)
(***************************************************************************)
RaceInit == RaceInputs /\ OpenAIIdle /\ LockIdle /\ DetailIdle /\ RouteIdle /\ TcknIdle /\ SpendIdle /\ AttrIdle /\ InitBase

RaceNext ==
    \/ QTick
    \/ \E c \in Calls :
         \/ QStart(c)
         \/ QZCountMinute(c)
         \/ QZCountHour(c)
         \/ QZAddMinute(c)
         \/ QZAddHour(c)
         \/ QExpire(c)
         \/ QZRemMinute(c)
         \/ QZRemHour(c)

SpecRace == RaceInit /\ [][RaceNext]_vars

(***************************************************************************)
(* Concurrent track_spend calls of one user.                               *)
(***************************************************************************)
SpendInit == SpendInputs /\ OpenAIIdle /\ LockIdle /\ DetailIdle /\ RouteIdle /\ TcknIdle /\ RaceIdle /\ AttrIdle /\ InitBase

SpendNext ==
    \E c \in Calls :
         \/ KStart(c)
         \/ KSelect(c)
         \/ KFlush(c)
         \/ KCommit(c)
         \/ KFail(c)

SpecSpend == SpendInit /\ [][SpendNext]_vars

(***************************************************************************)
(* Guardrail-log rows of concurrent invocations of one user.               *)
(***************************************************************************)
AttrInit == AttrIdle /\ OpenAIIdle /\ LockIdle /\ DetailIdle /\ RouteIdle /\ TcknIdle /\ RaceIdle /\ SpendIdle /\ InitBase

AttrNext ==
    \E c \in Calls :
         \/ AViolation(c)
         \/ APersist(c)
         \/ ACreateAudit(c)
         \/ ALogRequest(c)
         \/ ABackfill(c)

SpecAttr == AttrInit /\ [][AttrNext]_vars

(***************************************************************************)
(* OpenAIProvider.complete called once.                                    *)
(***************************************************************************)
OpenAIInit == OpenAIInputs /\ LockIdle /\ DetailIdle /\ RouteIdle /\ TcknIdle /\ RaceIdle /\ SpendIdle /\ AttrIdle /\ InitBase

OpenAINext == OComplete \/ OAttempt \/ OSleepEnds

SpecOpenAI == OpenAIInit /\ [][OpenAINext]_vars

(***************************************************************************)
(* Concurrent mask and unmask calls on the singleton pii_masker.  The      *)
(* event loop runs every ready coroutine, and every Redis call ends.       *)
(***************************************************************************)
LockInit ==
    LockInputs /\ DetailIdle /\ RouteIdle /\ OpenAIIdle /\ TcknIdle /\ RaceIdle /\ SpendIdle /\ AttrIdle /\ InitBase

LockNext == \E c \in Coros : LEnter(c) \/ LAcquired(c) \/ LRedis(c)

SpecLock ==
    /\ LockInit
    /\ [][LockNext]_vars
    /\ \A c \in Coros : WF_vars(LAcquired(c)) /\ WF_vars(LRedis(c))

(***************************************************************************)
(* PIIDetector.detect called on one text, in either mode.                  *)
(***************************************************************************)
DetailInit ==
    /\ DetailInputs /\ RouteIdle
    /\ LockIdle /\ OpenAIIdle /\ TcknIdle /\ RaceIdle /\ SpendIdle /\ AttrIdle /\ InitBase

DetailNext == DDetectFast \/ DDetectDetailed

SpecDetail == DetailInit /\ [][DetailNext]_vars

(***************************************************************************)
(* ABRouter.route_request called once on a configuration.                  *)
(***************************************************************************)
RouteInit ==
    /\ RouteInputs /\ DetailIdle
    /\ LockIdle /\ OpenAIIdle /\ TcknIdle /\ RaceIdle /\ SpendIdle /\ AttrIdle /\ InitBase

RouteNext == VRouteRequest

SpecRoute == RouteInit /\ [][RouteNext]_vars
(***************************************************************************)
(* C1.  Within one call of process_request the gates run in the order      *)
(* rate limit, input PII detection, input guardrail, masking, cache        *)
(* lookup, budget pre-check, upstream call, cache store, output PII        *)
(* detection and output guardrail, unmask, budget track: the gates         *)
(* executed so far are strictly increasing in that order, none runs        *)
(* without the gates it depends on, a gate that failed (rate limit         *)
(* exceeded, blocking guardrail, budget exceeded, all providers failed) is *)
(* the last one executed, and the input guardrail ran on the raw text      *)
(* before any masking.                                                     *)
(***************************************************************************)
C1_Order ==
    <<"rate", "detect_in", "guard_in", "mask", "cache_get", "budget_check",
      "provider", "cache_set", "detect_out", "guard_out", "unmask", "track">>

C1_Rank(gate) == CHOOSE i \in 1..Len(C1_Order) : C1_Order[i] = gate

C1_Failed(e) ==
    \/ e.gate = "rate" /\ e.out # "admitted"
    \/ e.gate \in {"guard_in", "guard_out"} /\ e.out = "error" /\ gEnabled /\ gBlockOnViolation
    \/ e.gate = "budget_check" /\ e.out = "exceeded"
    \/ e.gate = "provider" /\ e.out = "error"

C1_Ran(gate) == \E i \in 1..Len(pTrace) : pTrace[i].gate = gate

C1_GateOrder ==
    /\ \A i, j \in 1..Len(pTrace) :
          i < j => C1_Rank(pTrace[i].gate) < C1_Rank(pTrace[j].gate)
    /\ \A i \in 1..Len(pTrace) : C1_Failed(pTrace[i]) => i = Len(pTrace)
    /\ \A i \in 1..Len(pTrace) :
          pTrace[i].gate # "rate" => C1_Ran("rate")
    /\ (C1_Ran("mask") \/ C1_Ran("cache_get") \/ C1_Ran("budget_check"))
          => C1_Ran("detect_in") /\ C1_Ran("guard_in")
    /\ C1_Ran("provider") => C1_Ran("budget_check")
    /\ C1_Ran("cache_set") => C1_Ran("provider")
    /\ (C1_Ran("unmask") \/ C1_Ran("track")) => C1_Ran("detect_out")
    /\ C1_Ran("unmask") => C1_Ran("mask")
    /\ C1_Ran("guard_in") => pGuardInText = JoinContents(pOrigMessages)
    /\ (pPc = "done" /\ pExc = NoPExc) => C1_Ran("detect_out")

\* a request that passed all the gates, each of them executed
C1_Witness ==
    /\ pPc = "done"
    /\ [i \in 1..Len(pTrace) |-> pTrace[i].gate] = C1_Order

(***************************************************************************)
(* C2.  Whenever PII is detected in the input and masking is enabled, no   *)
(* message handed to the upstream provider contains the surface text of a  *)
(* detected entity, whatever the number of messages and wherever the PII.  *)
(***************************************************************************)
C2_NoRawPII ==
    (pSent # <<>> /\ pEntities # <<>> /\ cfgMasking) =>
        \A i \in 1..Len(pSent), j \in 1..Len(pEntities) :
            ~Contains(pSent[i], pEntities[j].text)

(***************************************************************************)
(* C3: for any text and entity list with 0 <= start < end <= len(text),    *)
(* unmask(mask(text, entities)) returns exactly text (the session being    *)
(* still alive when unmask runs).                                          *)
(***************************************************************************)
C3_RoundTrip ==
    (mPc = "unmasked" /\ ~mExpired) => mResult = mText

(***************************************************************************)
(* C4: for sequential calls of one principal with per-minute limit N and   *)
(* the hourly limit not reached, a call is admitted exactly when fewer     *)
(* than N earlier calls were admitted in the 60 seconds up to it, and is   *)
(* rejected by the per-minute limit otherwise; so no 60-second window ever *)
(* holds more than N admitted calls.                                       *)
(***************************************************************************)
AdmittedIn(lo, hi) == {t \in rAdmitted : lo <= t /\ t <= hi}

C4_SlidingWindow ==
    rEnabled =>
      /\ \A t \in 0..MaxTime :
            Cardinality(AdmittedIn(t - MinuteWindow, t)) <= rPerMinute
      /\ (/\ rLastCall >= 0
          /\ Cardinality(AdmittedIn(rLastCall - HourWindow, rLastCall - 1)) < rPerHour)
         => /\ (rOutcome = "admitted") <=>
                 (Cardinality(AdmittedIn(rLastCall - MinuteWindow, rLastCall - 1)) < rPerMinute)
            /\ (rOutcome = "rejected_minute") <=>
                 (Cardinality(AdmittedIn(rLastCall - MinuteWindow, rLastCall - 1)) >= rPerMinute)

\* N calls admitted inside one window and the next call in it rejected,
\* and a later call admitted again once the window has slid on
C4_Witness ==
    /\ rEnabled /\ rPerMinute = 2 /\ rPerHour = DefaultPerHour
    /\ rOutcome = "rejected_minute"
    /\ Cardinality(AdmittedIn(rLastCall - MinuteWindow, rLastCall)) = 2
    /\ Cardinality(rAdmitted) >= 3

(***************************************************************************)
(* C5: with budgeting enabled, check_budget admits iff                     *)
(* current_spend + cost <= limit, evaluated on the budget after any due    *)
(* rollover (a missing budget is first created with spend 0); a rejection  *)
(* carries that spend and the limit; and the check itself charges nothing: *)
(* the stored current_spend is the evaluated one in both cases.            *)
(***************************************************************************)
\* the spend the check has to evaluate, from the row before the call
C5_DueSpend ==
    IF ~bPre.exists THEN 0
    ELSE IF bToday >= bPre.reset_at THEN 0
    ELSE bPre.current_spend

C5_Limit == IF bPre.exists THEN bPre.limit ELSE bDefaultLimit

C5_CheckBudget ==
    (bOp = "check" /\ bEnabled) =>
        /\ (bOutcome = "admitted") <=> (C5_DueSpend + bCost <= C5_Limit)
        /\ (bOutcome = "exceeded") <=> (C5_DueSpend + bCost > C5_Limit)
        /\ bOutcome = "exceeded" =>
              bExc = [current_spend |-> C5_DueSpend, limit |-> C5_Limit]
        /\ bOutcome = "admitted" => bExc = NoExc
        /\ bBudget.exists /\ bBudget.current_spend = C5_DueSpend

\* a rejection on a budget that carries spend, and no rollover due
C5_Witness ==
    /\ bOp = "check" /\ bEnabled /\ bOutcome = "exceeded"
    /\ bPre.exists /\ bPre.current_spend > 0 /\ bToday < bPre.reset_at
    /\ bBudget.current_spend = bPre.current_spend

(***************************************************************************)
(* C6.  On a cache hit process_request runs no budget pre-check, no        *)
(* upstream call, no cache store and no budget track, and the response it  *)
(* returns has cache_hit = true and cost = 0; with budgeting disabled the  *)
(* pre-check never rejects.                                                *)
(***************************************************************************)
C6_CacheHit ==
    /\ pCacheHit =>
          /\ \A i \in 1..Len(pTrace) :
                pTrace[i].gate \notin {"budget_check", "provider", "cache_set", "track"}
          /\ pSent = <<>>
          /\ fbAttempts = <<>>
          /\ bOp = "none"
          /\ (pPc \in {"returned", "done"} /\ pExc = NoPExc) =>
                pResult.cache_hit /\ pResult.cost = 0
    /\ ~bEnabled =>
          /\ \A i \in 1..Len(pTrace) :
                pTrace[i].gate = "budget_check" => pTrace[i].out = "admitted"
          /\ pRaised.type # "BudgetExceededException"

\* a request answered from the cache
C6_Witness ==
    /\ pPc = "done"
    /\ pCacheHit
    /\ pResult # NoResult

(***************************************************************************)
(* C7.  When a step of process_request raises, the request is classified   *)
(* blocked for a guardrail violation, budget_exceeded for an exceeded      *)
(* budget and failed otherwise; an audit log with that status and a        *)
(* request.failed webhook event are scheduled, the caller gets the same    *)
(* exception, and a budget rejection involves no provider call.            *)
(***************************************************************************)
C7_Status ==
    IF pRaised.type = "GuardrailViolationException" THEN "blocked"
    ELSE IF pRaised.type = "BudgetExceededException" THEN "budget_exceeded"
    ELSE "failed"

C8_StatusCodes ==
    (pPc = "done" /\ pExc # NoPExc) =>
        /\ pExc.type = "RateLimitException" =>
              pHttp.status = 429 /\ pHttp.retry_after_header = pExc.retry_after
        /\ pExc.type = "BudgetExceededException" => pHttp.status = 402
        /\ pExc.type = "GuardrailViolationException" => pHttp.status = 400
        /\ pExc.type = "ProviderException" => pHttp.status = 502
        /\ pExc.type = "TimeoutException" => pHttp.status = 504

(***************************************************************************)
(* C9.  Audit logging, guardrail logging, webhook dispatch and spend       *)
(* tracking never change what the caller of process_request gets: no       *)
(* exception originates in them, a finished call returned the response     *)
(* built from the provider response (or raised the gate's exception)       *)
(* whatever the tasks and the spend write did, and the audit and webhook   *)
(* tasks run only after the response or the exception has been produced.   *)
(***************************************************************************)
C9_Isolation ==
    /\ pRaised # NoPExc =>
          pRaised.origin \in {"rate", "guard_in", "budget_check", "provider", "guard_out"}
    /\ pPc \in {"returned", "done"} =>
          IF pRaised = NoPExc
          THEN /\ pExc = NoPExc
               /\ pResult.completion = pCompletion
               /\ pResult.cost = pResp.cost_usd
               /\ pResult.cache_hit = pCacheHit
               /\ pResult.model = pResp.model
               /\ pResult.provider = pResp.provider
          ELSE pExc = pRaised /\ pResult = NoResult
    /\ \A i \in 1..Len(pLog) :
          pLog[i].task.kind \in {"audit", "webhook"} =>
              pLog[i].at \in {"returned", "done"}

\* a served request whose spend write, audit task and webhook task all failed
C9_Witness ==
    /\ pPc = "done"
    /\ pResult # NoResult
    /\ pTrackFailed
    /\ \E i \in 1..Len(pLog) : pLog[i].task.kind = "audit" /\ ~pLog[i].ok
    /\ \E i \in 1..Len(pLog) : pLog[i].task.kind = "webhook" /\ ~pLog[i].ok

(***************************************************************************)
(* C10: with failover enabled (and a primary named), the candidates tried  *)
(* are the primary followed by the providers of the configured order other *)
(* than the primary, in that order and each at most once; the first        *)
(* candidate whose complete succeeds ends the call, its response is        *)
(* returned and no candidate is called after it.  The primary gets the     *)
(* caller's model (or its default), a fallback candidate the caller's      *)
(* model if its allowlist contains it and its own default otherwise.       *)
(***************************************************************************)
\* position of provider p in the configured order (0: not in it)
C10_PosInOrder(p) ==
    IF \E i \in 1..Len(fbOrder) : fbOrder[i] = p
    THEN CHOOSE i \in 1..Len(fbOrder) : fbOrder[i] = p
    ELSE 0

C11_AllFailedOnly ==
    fbPc = "done" =>
        /\ (fbChain # <<>> /\ fbResult.status = "error") =>
              /\ Len(fbAttempts) = Len(fbChain)
              /\ \A i \in 1..Len(fbAttempts) : ~fbAttempts[i].ok
              /\ fbResult.exc = "ProviderException"
              /\ fbLastError = fbChain[Len(fbChain)]
        /\ fbResult.status = "ok" =>
              /\ fbAttempts # <<>>
              /\ fbAttempts[Len(fbAttempts)].ok
              /\ fbResult.provider = fbAttempts[Len(fbAttempts)].provider
              /\ fbResult.exc = ""
        /\ (~fbEnabled /\ fbPrimary \in KnownProviders) =>
              /\ Len(fbAttempts) = 1
              /\ fbAttempts[1].provider = fbPrimary
              /\ fbResult.provider = fbPrimary
              /\ ~fbAttempts[1].ok => fbResult.exc = "ProviderException"

(***************************************************************************)
(* C12.  An upstream provider call that does not answer within the         *)
(* configured timeout (timeout.default, 30 s) is abandoned: while          *)
(* process_request waits for execute_with_fallback, no provider call has   *)
(* been pending for longer than the timeout.                               *)
(***************************************************************************)
C12_UpstreamTimeout ==
    (pPc = "provider" /\ fbPc # "done") => fbWaited <= TimeoutDefault


(***************************************************************************)
(* C13: after check_budget has loaded the budget (created it lazily, or    *)
(* rolled it over because now >= reset_at), reset_at is strictly later     *)
(* than now, so that a second check at the same time does not roll over    *)
(* again; a budget that was created or rolled over has current_spend = 0.  *)
(* reset_at is a midnight: it is later than now exactly when its day is    *)
(* after today.                                                            *)
(***************************************************************************)
C13_ResetLater ==
    (bOp = "check" /\ bEnabled) =>
        /\ bBudget.exists
        /\ bBudget.reset_at > bToday
        /\ (~bPre.exists \/ bToday >= bPre.reset_at) => bBudget.current_spend = 0

(***************************************************************************)
(* C14: a rejection by the per-minute limit carries                        *)
(* retry_after = window - (now mod window) + 1 with window = 60, and this  *)
(* retry_after is at least 1 and at most 60 whatever the time of the call. *)
(***************************************************************************)
C14_RetryAfterRange ==
    rOutcome = "rejected_minute" =>
        /\ rRetryAfter = MinuteWindow - (rLastCall % MinuteWindow) + 1
        /\ 1 <= rRetryAfter
        /\ rRetryAfter <= 60

(***************************************************************************)
(* C15: a masking session is consumed by the first unmask that finds it:   *)
(* once unmask has returned, the mapping mask:<sid> is gone, and a later   *)
(* unmask with that session id, like an unmask with the empty session id   *)
(* or with a session whose TTL ran out, returns its input text unchanged.  *)
(***************************************************************************)
C15_Consumed ==
    /\ mPc \in {"unmasked", "again"} => mSid \notin DOMAIN maskStore
    /\ mPc = "again" => mResult = mMasked
    /\ (mPc = "unmasked" /\ (mExpired \/ mSid = NoSid)) => mResult = mMasked

\* a second unmask of a text that carries sentinels of a live, consumed session
C15_Witness ==
    /\ mPc = "again"
    /\ ~mExpired
    /\ mSid # NoSid
    /\ Contains(mMasked, <<mSid>>)
    /\ mResult = mMasked

(***************************************************************************)
(* C16: GuardrailEngine.check runs every enabled rule in configured order, *)
(* also after a blocking violation, and reports exactly the violated       *)
(* enabled rules (never a disabled one); passed = (no violations);         *)
(* should_block iff some reported violation has severity error and         *)
(* block_on_violation is set; a disabled engine returns passed, no         *)
(* violations, should_block = false.                                       *)
(***************************************************************************)
C16_EngineCheck ==
    pPc = "guard_done" =>
        LET enabledRules == SelectSeq(gRules, LAMBDA r : r.enabled)
            violated == SelectSeq(enabledRules,
                                  LAMBDA r : RuleViolated(r, pText, pEntities, gTokens))
        IN IF ~gEnabled
           THEN gResult = [passed |-> TRUE, violations |-> <<>>, should_block |-> FALSE]
           ELSE /\ gEvaluated = [i \in 1..Len(enabledRules) |-> enabledRules[i].name]
                /\ gResult.violations =
                      [i \in 1..Len(violated) |->
                          [rule_name |-> violated[i].name, severity |-> violated[i].severity]]
                /\ gResult.passed = (gResult.violations = <<>>)
                /\ gResult.should_block =
                      (gBlockOnViolation /\
                       \E i \in 1..Len(gResult.violations) :
                           gResult.violations[i].severity = "error")

\* a blocking violation is followed by a further reported violation, while a
\* disabled rule the input violates is in the list
C16_Witness ==
    /\ pPc = "guard_done"
    /\ gEnabled /\ gBlockOnViolation
    /\ gResult.should_block
    /\ Len(gResult.violations) >= 2
    /\ gResult.violations[1].severity = "error"
    /\ \E i \in 1..Len(gRules) : ~gRules[i].enabled /\ gRules[i].entity_types = {"PHONE"}
    /\ \E i \in 1..Len(pEntities) : pEntities[i].type = "PHONE"

(***************************************************************************)
(* C17: webhook delivery is at-least-once: for a triggered event, every    *)
(* active subscription whose events contain the event name receives the    *)
(* event at least once.  Stated on finite runs: once trigger_event has     *)
(* returned and no delivery task has a POST or a retry ahead of it, each   *)
(* such subscription's receiver has been reached by at least one POST.     *)
(***************************************************************************)
C17_AtLeastOnce ==
    (/\ wEnabled
     /\ wPc = "returned"
     /\ \A i \in 1..Len(wTasks) : wTasks[i].pc \notin {"post", "sleep"})
    => \A i \in GetActiveWebhooks(wSubs, wEvent) : wReceived[i] >= 1

(***************************************************************************)
(* C18: in the streaming path with a masking session every chunk is        *)
(* unmasked before it is emitted: for each chunk of the upstream stream,   *)
(* from the first to the last, the frame sent to the client carries the    *)
(* chunk with every sentinel of the session replaced by the original the   *)
(* session stored for it.                                                  *)
(***************************************************************************)
C18_EveryChunkUnmasked ==
    sSid # NoSid =>
        \A i \in 1..Len(sChunks) :
            /\ i <= Len(sFrames)
            /\ sFrames[i] = DataFrame(UnmaskText(sChunks[i], sSid, sSid :> sMapping))

(***************************************************************************)
(* C19: a streaming response is a sequence of frames data: <chunk> in      *)
(* upstream order followed by exactly one terminal frame: data: [DONE]     *)
(* when the upstream iterator ended normally, data: [ERROR] <msg> when a   *)
(* step raised; no frame follows the terminal frame, [DONE] is never       *)
(* emitted after an error, and no exception leaves the generator.          *)
(***************************************************************************)
C19_Frames ==
    LET n == Len(sFrames)
        terminal(f) == f.kind \in {"done", "error"}
    IN /\ sPc # "raised"
       /\ \A i \in 1..n : terminal(sFrames[i]) => (i = n /\ sPc = "closed")
       /\ \A i \in 1..n :
             sFrames[i].kind = "data" =>
                /\ i <= Len(sChunks)
                /\ sFrames[i].chunk \in
                      {sChunks[i], UnmaskText(sChunks[i], sSid, sSid :> sMapping)}
       /\ sPc = "closed" =>
             /\ n >= 1
             /\ terminal(sFrames[n])
             /\ n = Len(sChunks) + 1
             /\ sFrames[n].kind = "error" <=> sExc # NoStreamExc
             /\ sFrames[n].kind = "done" <=> (sExc = NoStreamExc /\ sUpstream = <<>>)

\* a stream that failed between two chunks and was closed by [ERROR]
C19_Witness ==
    /\ sPc = "closed"
    /\ sExc = "ProviderException"
    /\ Len(sFrames) = 2
    /\ sFrames[1].kind = "data"
    /\ sFrames[2].kind = "error"
    /\ sUpstream # <<>>

(***************************************************************************)
(* C20: before the upstream stream is opened the streaming path has run    *)
(* the pre-call gates of the request pipeline in their order: rate-limit   *)
(* check, PII detection, input guardrail check and (when there is PII to   *)
(* mask) masking; a text with a blocking guardrail violation never gets    *)
(* to the upstream.                                                        *)
(***************************************************************************)
C20_PreCallGates ==
    (\E i \in 1..Len(sTrace) : sTrace[i] = "provider") =>
        LET text == JoinContents(sMessages)
            gates == SelectSeq(sTrace, LAMBDA g : g # "mask")
        IN /\ gates = <<"rate", "detect_in", "guard_in", "provider">>
           /\ ~EngineCheck(gEnabled, gBlockOnViolation, gRules, text,
                           DetectPatterns(text), NoTokens).should_block

(***************************************************************************)
(* C21: SemanticCache.get decides after the whole scan of the live cache:* *)
(* keys: it returns a stored response iff the highest cosine similarity    *)
(* of an entry to the query embedding is >= the threshold, and then the    *)
(* response of an entry with that highest similarity; otherwise (also with *)
(* an empty store) it returns a miss.                                      *)
(***************************************************************************)
C21_BestMatch ==
    (scOp = "get" /\ scEnabled /\ scReady /\ scFault = "none") =>
        LET sim(k) == CosineSimilarity(Embed(scQuery), scStore[k].vector)
            highest(k) == \A j \in DOMAIN scStore : ~SimGreater(sim(j), sim(k))
        IN /\ scResult # CacheMiss <=>
                 \E k \in DOMAIN scStore : MeetsThreshold(sim(k), scThreshold)
           /\ scResult # CacheMiss =>
                 \E k \in DOMAIN scStore : highest(k) /\ scResult = scStore[k].response

\* a hit among two entries that both reach the threshold, with different
\* similarities and different responses
C21_Witness ==
    /\ scOp = "get" /\ scEnabled /\ scReady /\ scFault = "none"
    /\ scResult # CacheMiss
    /\ \E j, k \in DOMAIN scStore :
          /\ SimGreater(CosineSimilarity(Embed(scQuery), scStore[k].vector),
                        CosineSimilarity(Embed(scQuery), scStore[j].vector))
          /\ MeetsThreshold(CosineSimilarity(Embed(scQuery), scStore[j].vector), scThreshold)
          /\ scStore[j].response # scStore[k].response
          /\ scResult = scStore[k].response

(***************************************************************************)
(* C22: the cache never fails a request: with the cache disabled or        *)
(* uninitialised get returns a miss and set writes nothing; an embedding   *)
(* or Redis error raised inside get or set is caught, so that get returns  *)
(* a miss and set returns normally, and the store is never left with a     *)
(* partially written entry (one that set did not finish, lacking its TTL)  *)
(* that get would return.                                                  *)
(***************************************************************************)
C22_NeverFails ==
    /\ ~scEscaped
    /\ (~scEnabled \/ ~scReady) => (scStore = EmptyCache /\ scResult = CacheMiss)
    /\ (scOp = "get" /\ scFault # "none") => scResult = CacheMiss
    /\ \A k \in DOMAIN scStore : scStore[k].ttl

(***************************************************************************)
(* C23: when process_request is called a second time with the prompt of    *)
(* the call before it, which returned a response, and the cache is enabled *)
(* and still holds the entry, the second response has cache_hit = true and *)
(* cost = 0 and a request_id that differs from the first response's.       *)
(***************************************************************************)
C23_SecondCall ==
    (/\ pPc = "returned"
     /\ cfgCache
     /\ pPrevId # NoPrevious
     /\ \E i \in 1..Len(pTrace) : pTrace[i] = Gate("cache_get", "hit"))
    => /\ pResult.cache_hit
       /\ pResult.cost = 0
       /\ pResult.request_id # pPrevId


(***************************************************************************)
(* C24: for a request in whose text no PII is detected, process_request    *)
(* does the same with masking enabled as with masking disabled: it creates *)
(* no masking session, hands the messages it received to the provider and  *)
(* returns the completion of the provider (or of the cache) unchanged.     *)
(***************************************************************************)
C24_NoPiiNoMasking ==
    (pEntities = <<>> /\ pPc \notin {"idle", "rate", "detect_in"})
    => /\ pSid = NoSid
       /\ pMessages = pOrigMessages
       /\ \A i \in 1..Len(pTrace) : pTrace[i].gate \notin {"mask", "unmask"}
       /\ pSent \in {<<>>, pOrigMessages}
       /\ (pPc = "returned" /\ pResult # NoResult) => pResult.completion = pResp.completion

C24_Witness ==
    /\ cfgMasking
    /\ pPc = "returned"
    /\ pEntities = <<>>
    /\ pSent = pOrigMessages
    /\ pResult.completion = pResp.completion
    /\ pResult.completion # <<>>

(***************************************************************************)
(* C25: validate_tckn accepts a string iff it consists of exactly 11       *)
(* digits d1..d11 with ((d1+d3+d5+d7+d9)*7 - (d2+d4+d6+d8)) mod 10 = d10    *)
(* and (d1+...+d10) mod 10 = d11; find_pattern_matches returns a match of  *)
(* the TCKN pattern as an entity only if it passes this check.             *)
(***************************************************************************)
C25_Checksum(s) ==
    /\ Len(s) = 11
    /\ \A i \in 1..11 : s[i] \in AsciiDigitSet
    /\ LET d == [i \in 1..11 |-> DigitValue(s[i])]
       IN /\ ((d[1] + d[3] + d[5] + d[7] + d[9]) * 7
                - (d[2] + d[4] + d[6] + d[8])) % 10 = d[10]
          /\ (d[1] + d[2] + d[3] + d[4] + d[5] + d[6] + d[7] + d[8] + d[9]
                + d[10]) % 10 = d[11]

C25_ValidateTckn ==
    /\ tPc \in {"validated", "detected"} =>
         ((tValid = "True") <=> C25_Checksum(tArg))
    /\ tPc = "detected" =>
         \A i \in 1..Len(tFound) :
              /\ tFound[i].type = "TCKN"
              /\ C25_Checksum(tFound[i].text)
              /\ tFound[i].text # <<"1", "2", "3", "4", "5", "6", "7", "8", "9", "0", "1">>

C25_Witness ==
    /\ tPc = "detected"
    /\ tValid = "True"
    /\ tContext = <<<<" ">>, <<" ">>>>
    /\ Len(tFound) = 1
    /\ tFound[1].text = tArg
    /\ tArg[10] # "0"

(***************************************************************************)
(* C26: under any interleaving of concurrent check_rate_limit calls of one *)
(* user, the admitted calls whose timestamps fall into one 60-second       *)
(* window never outnumber the per-minute limit, and once no call is in     *)
(* progress a check counts every admitted call as one member of the window.*)
(***************************************************************************)
C26_WindowHolds ==
    /\ \A t \in 0..MaxRaceClock :
         Cardinality({c \in Admitted(qPc) :
                        t <= qNow[c] /\ qNow[c] < t + MinuteWindow}) <= qPerMinute
    /\ InFlight(qPc) = {} =>
         ZCount(qMinute, qClock - MinuteWindow, qClock) = Cardinality(Admitted(qPc))


(***************************************************************************)
(* C27: the completion process_request returns holds no masking sentinel   *)
(* <KIND:sid:id> of any session, whatever the requests before it, also when*)
(* the provider echoes its prompt and when the cache answers the request.  *)
(***************************************************************************)
C27_NoSentinelReturned ==
    pResult # NoResult =>
        \A kind \in PIIKinds, s \in 1..Len(SessionIds), n \in 1..Len(Digit) :
            ~Contains(pResult.completion,
                      Sentinel(kind, SessionIds[s], n - 1))

(***************************************************************************)
(* C28: after any interleaving of track_spend calls of one user within one *)
(* budget period, current_spend is its value before the calls plus the sum *)
(* of the costs of the calls that committed.                               *)
(***************************************************************************)
C28_NoLostSpend ==
    (\A c \in Calls : kPc[c] \in {"idle", "committed", "failed"}) =>
        kSpend = kStart + SumCosts(kCost, {c \in Calls : kPc[c] = "committed"})

(***************************************************************************)
(* C29: a guardrail-log row ends up attributed to the request it was       *)
(* persisted for: its request_id is never the id of another request, and   *)
(* once the audit task of its request and the tasks that persist its rows  *)
(* have run, its request_id is that request's id, for violations of the    *)
(* input and of the output alike.                                          *)
(***************************************************************************)
C29_RowAttributed ==
    \A row \in aRows :
        /\ row.request_id \in {NullId, row.owner}
        /\ (aAudit[row.owner] = "done" /\ aPersist[row.owner] = 0) =>
              row.request_id = row.owner

C31_PersistedOnce ==
    (pPc \in {"returned", "done"} /\ pRaised.type = "GuardrailViolationException") =>
        LET logs == SelectSeq(pScheduled, LAMBDA t : t.kind = "guardrail_log")
            expected == IF pRaised.origin = "guard_out" /\ pViolations # <<>>
                        THEN <<Task("guardrail_log", "", Len(pViolations)),
                               Task("guardrail_log", "", Len(pRaised.violations))>>
                        ELSE <<Task("guardrail_log", "", Len(pRaised.violations))>>
        IN logs = expected

(***************************************************************************)
(* C32: when process_request has finished, with a response or with an      *)
(* exception, the masking session it created is no longer in the store.    *)
(***************************************************************************)
C32_SessionGone ==
    (pPc \in {"returned", "done"} /\ pSid # NoSid) => pSid \notin DOMAIN maskStore

(***************************************************************************)
(* C33: for one subscription and event _deliver_webhook makes at most      *)
(* max_retries POST attempts, none after the first success, another one    *)
(* after every failed attempt while attempts remain, sleeps                *)
(* retry_delay * 2^attempt after the failed attempt number attempt         *)
(* (from 0) unless it was the last one, and ends without raising.          *)
(***************************************************************************)
C33_RetryLoop ==
    \A i \in 1..Len(wTasks) :
        LET posts == wPosts[i]
            waits == wWaits[i]
            task == wTasks[i]
        IN /\ Len(posts) <= wMaxRetries
           /\ \A k \in 1..(Len(posts) - 1) : posts[k] # "success"
           /\ \A k \in 1..Len(waits) : waits[k] = RetryDelay * 2 ^ (k - 1)
           /\ Len(waits) <= wMaxRetries - 1 \/ waits = <<>>
           /\ task.pc \in {"none", "post", "sleep", "delivered", "gave_up"}
           /\ task.pc = "post" => Len(posts) = task.attempt /\ Len(waits) = task.attempt
           /\ task.pc = "sleep" =>
                Len(posts) = task.attempt + 1 /\ Len(waits) = task.attempt + 1
           /\ task.pc = "delivered" =>
                /\ posts # <<>> /\ posts[Len(posts)] = "success"
                /\ Len(waits) = Len(posts) - 1
           /\ task.pc = "gave_up" =>
                /\ Len(posts) = wMaxRetries
                /\ \A k \in 1..Len(posts) : posts[k] # "success"
                /\ Len(waits) = (IF wMaxRetries = 0 THEN 0 ELSE wMaxRetries - 1)

C33_Witness ==
    \E i \in 1..Len(wTasks) :
        /\ wMaxRetries = 3
        /\ wTasks[i].pc = "gave_up"
        /\ wPosts[i] = <<"error_status", "unreachable", "error_status">>
        /\ wWaits[i] = <<1, 2>>

(***************************************************************************)
(* C34: every matching subscription gets a delivery task of its own; what  *)
(* happens to one delivery (failure, retry sleep, giving up) changes no    *)
(* other delivery and never keeps another delivery from making the attempt *)
(* it is at; trigger_event returns, also when the query of subscriptions   *)
(* fails, in which case nothing is delivered.                              *)
(***************************************************************************)
C34_OwnTask ==
    /\ wPc \in {"idle", "call", "returned"}
    /\ (wPc = "returned" /\ wEnabled) =>
          \/ \A i \in 1..Len(wTasks) : wTasks[i] = NoTask
          \/ \A i \in 1..Len(wTasks) :
                (wTasks[i] # NoTask) <=> (i \in GetActiveWebhooks(wSubs, wEvent))
    /\ \A j \in 1..Len(wTasks) :
          wTasks[j].pc = "post" =>
             ENABLED (PostAttempt /\ wPosts'[j] # wPosts[j]
                        /\ \A k \in 1..Len(wTasks) : k # j => wTasks'[k] = wTasks[k])

C34_Witness ==
    /\ Len(wTasks) = 2
    /\ wTasks[1].pc = "sleep"
    /\ wTasks[2].pc = "delivered"
    /\ wPosts[1] = <<"unreachable">>
    /\ wPosts[2] = <<"success">>

(***************************************************************************)
(* C35: OpenAIProvider.complete makes at most max_retries upstream calls,  *)
(* calls again only after an API error, sleeping retry_delay * 2^attempt   *)
(* before, raises ProviderException at once for any other error, and for   *)
(* every max_retries ends by returning a ProviderResponse or by raising    *)
(* ProviderException, never by returning nothing.                          *)
(***************************************************************************)
C35_Complete ==
    /\ Len(oCalls) <= oMaxRetries
    /\ \A k \in 1..(Len(oCalls) - 1) : oCalls[k] \in APIErrors
    /\ \A k \in 1..Len(oWaits) : oWaits[k] = oRetryDelay * 2 ^ (k - 1)
    /\ oPc \in {"idle", "call", "attempt", "sleep", "returned", "raised"}
    /\ oPc = "attempt" => Len(oWaits) = Len(oCalls)
    /\ oPc = "returned" => oCalls # <<>> /\ oCalls[Len(oCalls)] = "ok"
    /\ oPc = "raised" => oCalls # <<>> /\ oCalls[Len(oCalls)] # "ok"

(***************************************************************************)
(* C36: mask and unmask exclude each other: at any moment at most one      *)
(* coroutine is between its session-id generation and the end of its       *)
(* Redis write, or between its Redis read and the end of its delete; and   *)
(* every coroutine waiting for the lock acquires it in the end.            *)
(***************************************************************************)
C36_Holders == {c \in Coros : lPc[c] \in InLock}

C36_Exclusive ==
    /\ [](Cardinality(C36_Holders) <= 1 /\ (C36_Holders # {} => lLocked))
    /\ \A c \in Coros :
         (lPc[c] \in {"wait_mask", "wait_unmask"}) ~> (lPc[c] \in InLock)

\* one coroutine is deleting a mapping while the two others queue, a mask
\* before an unmask
C36_Witness ==
    /\ lPc[1] = "delete"
    /\ lWaiters = <<2, 3>>
    /\ lPc[2] = "wait_mask"
    /\ lPc[3] = "wait_unmask"

(***************************************************************************)
(* C37: a check_rate_limit call rejected by the per-minute or the per-hour *)
(* limit adds no member to either window; an admitted call of an enabled   *)
(* limiter adds its timestamp to both windows; a disabled limiter admits   *)
(* and leaves both windows and their expiry as they are.                   *)
(***************************************************************************)
C37_Call == rLastCall' # rLastCall

C37_Frame ==
    [][C37_Call =>
        /\ rOutcome' \in {"rejected_minute", "rejected_hour"} =>
             /\ rEnabled
             /\ rMinute' = rMinute
             /\ rHour' = rHour
        /\ (rOutcome' = "admitted" /\ rEnabled) =>
             /\ rLastCall' \in rMinute' \ LiveKey(rMinute, rMinuteExp, rNow)
             /\ rLastCall' \in rHour' \ LiveKey(rHour, rHourExp, rNow)
        /\ ~rEnabled =>
             /\ rOutcome' = "admitted"
             /\ UNCHANGED <<rMinute, rHour, rMinuteExp, rHourExp>>]_vars

\* a call rejected by the hourly limit after admitted ones: its time is in
\* neither window, the latest admitted call's is in both
C37_Witness ==
    /\ rEnabled
    /\ rOutcome = "rejected_hour"
    /\ rLastCall \notin rMinute \cup rHour
    /\ rAdmitted # {}
    /\ \E t \in rAdmitted : t \in rMinute /\ t \in rHour /\ \A u \in rAdmitted : u <= t

(***************************************************************************)
(* C38: detailed-mode detection returns its entities sorted by start and   *)
(* pairwise disjoint; an NER candidate whose span intersects a pattern     *)
(* entity (partly, or one containing the other) is not returned together   *)
(* with it; and of two intersecting candidates of different confidence     *)
(* the less confident one is not returned.                                 *)
(***************************************************************************)
C38_Intersect(a, b) == a.start < b.end /\ b.start < a.end

C38_Returned == {dEntities[i] : i \in 1..Len(dEntities)}

\* every mapped NER entity of doc.ents, as an entity
C38_NerCandidates ==
    {[type |-> EntityTypeOf(dEnts[i].label_), start |-> dEnts[i].start_char,
      end |-> dEnts[i].end_char, confidence |-> NerConfidence(dEnts[i].label_)] :
        i \in {j \in 1..Len(dEnts) : EntityTypeOf(dEnts[j].label_) # "NONE"}}

C38_PatternCandidates == {dPatterns[i] : i \in 1..Len(dPatterns)}

C38_Merged ==
    dMode = "detailed" =>
        /\ \A i, j \in 1..Len(dEntities) :
             i < j => /\ dEntities[i].start <= dEntities[j].start
                      /\ ~C38_Intersect(dEntities[i], dEntities[j])
        /\ C38_Returned \subseteq C38_NerCandidates \cup C38_PatternCandidates
        /\ \A n \in C38_NerCandidates, p \in C38_PatternCandidates :
             C38_Intersect(n, p) => ~(n \in C38_Returned /\ p \in C38_Returned)
        /\ \A a, b \in C38_NerCandidates \cup C38_PatternCandidates :
             (C38_Intersect(a, b) /\ a.confidence > b.confidence) =>
                 b \notin C38_Returned

\* a DATE tagged around a phone number, and a PERSON behind it: the phone
\* number and the person are returned, the date is not
C38_Witness ==
    /\ dMode = "detailed"
    /\ Len(dPatterns) = 1
    /\ Len(dEnts) = 2
    /\ dEnts[1].label_ = "DATE"
    /\ dEnts[1].start_char < dPatterns[1].start
    /\ dPatterns[1].end < dEnts[1].end_char
    /\ dEnts[2].label_ = "PERSON"
    /\ Len(dEntities) = 2
    /\ dEntities[1] = dPatterns[1]
    /\ dEntities[2].type = "PERSON"

(***************************************************************************)
(* C39: with A/B testing enabled, route_request returns the first variant  *)
(* whose cumulative percentage exceeds the sample r of [0, 100), so a      *)
(* variant of percentage 0 is never returned for its own share; when no    *)
(* variant is reached, or there are no variants, it returns the system     *)
(* default provider and model.                                             *)
(***************************************************************************)
RECURSIVE C39_Cumulative(_, _)
C39_Cumulative(variants, i) ==
    IF i = 0 THEN 0 ELSE C39_Cumulative(variants, i - 1) + variants[i].percentage

C39_Reached ==
    {i \in 1..Len(vVariants) : C39_Cumulative(vVariants, i) > vRand}

C39_First == CHOOSE i \in C39_Reached : \A j \in C39_Reached : i <= j

C39_Routing ==
    vRand # -1 =>
        IF vEnabled /\ C39_Reached # {}
        THEN vRoute = <<vVariants[C39_First].provider, vVariants[C39_First].model>>
        ELSE vRoute = DefaultRoute(vOpenai)

(***************************************************************************)
(* C40: after GuardrailEngine() and the startup of the application every   *)
(* configured rule is in the rule list of the engine once, so one check    *)
(* reports at most one violation per configured rule.                      *)
(***************************************************************************)
C40_LoadedOnce ==
    pViolations # <<>> =>
        /\ \A i \in 1..Len(RulesConfig) :
             Cardinality({j \in 1..Len(gRules) : gRules[j].name = RulesConfig[i].name}) = 1
        /\ \A i, j \in 1..Len(pViolations) :
             pViolations[i].rule_name = pViolations[j].rule_name => i = j
====
